---- MODULE Spec2Model ----
(***************************************************************************)
(* The admission-controlled dispatch loop of parareq                       *)
(* (src/src/parareq/parareq.py): APIRequestProcessor's main loop           *)
(* _process_api_requests_from_file, the in-flight APIRequest.call_api      *)
(* tasks it launches, the StatusTracker counters, the retry queue and the  *)
(* result file.                                                            *)
(*                                                                         *)
(* Scheduling: asyncio runs the loop and the call_api tasks on one thread. *)
(* Control changes hands only at an await: the loop's micro-sleep, its     *)
(* cool-down sleep, and a call's wait for the HTTP response.  Every action *)
(* below is the code that runs between two awaits.                         *)
(*                                                                         *)
(* Time: the clock is time.time() in whole seconds, sampled every quantum  *)
(* seconds.  The loop's own statements take no time; time passes while the *)
(* loop sleeps.  The 1 ms micro-sleep is shorter than a quantum, so it may *)
(* end at the clock value it started at, or at the next one.               *)
(*                                                                         *)
(* Specifications: Spec has short runs on a fine clock (a quantum of       *)
(* rate_limit_pause / 3) with every kind of response; SpecMinute has runs  *)
(* of one and two periods on a coarse clock, with the launches recorded;   *)
(* SpecFine has runs of one period on the fine clock under a limit of one  *)
(* request per period; SpecLive has runs of unbounded length under         *)
(* fairness.                                                               *)
(*                                                                         *)
(* Capacities: the code keeps them as floats and refills them by           *)
(* limit * seconds / 60.0, so a capacity holds the roundings of the        *)
(* divisions and additions that made it.  The model keeps a float as the   *)
(* number of sixtieths nearest to it and its distance from them (see       *)
(* Floats below) and rounds where the code rounds.                         *)
(***************************************************************************)
EXTENDS Integers, Sequences, FiniteSets, TLC

VARIABLES
    \* configuration and input, fixed at construction
    max_requests_per_minute,
    max_tokens_per_minute,
    max_attempts,
    requests_file,          \* the lines of the requests file
    service,                \* the responses the service gives in this run
    \* the clock of the run, fixed at its start
    quantum,                \* seconds between two samples of time.time()
    horizon,                \* the last sample of a run of bounded length
    relative,               \* whether time is kept relative to now
    history,                \* whether the launches are recorded
    \* how the program is started, and what it finds on the disk
    args,
    \* run()
    requests,               \* the file iterator: number of lines consumed
    requests_retry_queue,   \* asyncio.Queue of task ids
    task_id_generator,      \* the next value the generator yields
    status_tracker,
    \* _process_api_requests_from_file
    next_request,
    available_request_capacity,
    available_token_capacity,
    last_update_time,
    file_not_finished,
    \* the APIRequest objects, by task id (api_requests[id + 1])
    api_requests,
    \* the call_api tasks created and not yet finished
    tasks,
    \* the results file, one entry per line, and the file with the name
    \* after_finishing gives it when tasks have failed
    save_file,
    with_errors_file,
    \* the number of lines of the example requests file, which
    \* create_requests_file writes
    example_requests_file,
    \* the loop's position, the end of its cool-down sleep, and time.time()
    pc,
    wake_time,
    clock,
    \* history: call_api launches per task id, the last program step, and
    \* the time and token consumption of every launch (if recorded)
    launched,
    event,
    admitted,
    \* the JobManager of rate_limiter.py, if the program makes one
    manager

\* what the program is started with, but for the requests file
settings == <<max_requests_per_minute, max_tokens_per_minute, max_attempts,
              service, quantum, horizon, relative, history, args>>

config == <<settings, requests_file>>

vars == <<config, requests, requests_retry_queue, task_id_generator,
          status_tracker, next_request, available_request_capacity,
          available_token_capacity, last_update_time, file_not_finished,
          api_requests, tasks, save_file, with_errors_file,
          example_requests_file, pc, wake_time, clock, launched, event,
          admitted, manager>>

\* the files the program writes
files == <<save_file, with_errors_file, example_requests_file>>

(***************************************************************************)
(* Bounds of the model.                                                    *)
(***************************************************************************)
MaxLines == 2           \* lines in the requests file
MaxErrors == 2          \* failed attempts the service gives a run
MaxTicks == 3           \* clock quanta in a run

(***************************************************************************)
(* Program constants.                                                      *)
(***************************************************************************)
rate_limit_pause == 15
Period == 60
NoRequest == -1

Quantum == rate_limit_pause \div 3
StartTime == 2 * Period             \* time.time() when the run starts

AttemptLimits == {0, 1, 2}
RequestLimits == {0, 1, 3}
TokenLimits == {6}
TokenCosts == {0, 4, 7}
Metadata == {"absent", "empty", "full"}
Responses == {"ok", "rate_limit", "api_error", "error_str", "raise"}

Units(n) == n * Period

Min(a, b) == IF a <= b THEN a ELSE b

Max(a, b) == IF a >= b THEN a ELSE b

(***************************************************************************)
(* Floats.  A Python float is an IEEE 754 double: a multiple of            *)
(* 2^(e - 52), where 2^e is the power of two at or below it, and every     *)
(* operation gives the double nearest to the exact result (the one with    *)
(* an even last bit when two are equally near).                            *)
(*                                                                         *)
(* The model keeps the float x as the record                               *)
(*     sixtieths   the integer nearest to 60 * x                           *)
(*     error       (60 * x - sixtieths) * 2^60                             *)
(* so that x = (sixtieths + error / 2^60) / 60.  The error is a whole      *)
(* number for every float the loop computes from whole seconds (a          *)
(* multiple of 2^-58 or coarser), and it is small: the arithmetic below    *)
(* never needs the 53 bits of x, only N = sixtieths, D = error and the     *)
(* remainders of N * 2^k by 60 and 120.                                    *)
(***************************************************************************)
Floats == [sixtieths : Int, error : Int]

\* the float of the integer n
Float(n) == [sixtieths |-> Units(n), error |-> 0]

\* x <= y
AtMost(x, y) ==
    \/ x.sixtieths < y.sixtieths
    \/ x.sixtieths = y.sixtieths /\ x.error <= y.error

\* x >= y
AtLeast(x, y) == AtMost(y, x)

\* min(x, y)
Least[x \in Floats, y \in Floats] == IF AtMost(x, y) THEN x ELSE y

\* the exact value (N + D / 2^60) / 60 is at least 2^e
AtLeastPowerOfTwo(N, D, e) ==
    \/ 16 * N > 15 * 2^(e + 6)
    \/ 16 * N = 15 * 2^(e + 6) /\ D >= 0

\* the e with 2^e <= (N + D / 2^60) / 60 < 2^(e + 1), for values from 2^-6
Exponent[N \in Int, D \in Int] ==
    CHOOSE e \in -6..10 :
        /\ AtLeastPowerOfTwo(N, D, e)
        /\ ~AtLeastPowerOfTwo(N, D, e + 1)

\* 2^k modulo 120, for k >= 3: 8, 16, 32, 64, 8, ...
PowerOfTwoMod120(k) == 2^(3 + ((k - 3) % 4))

\* the double nearest to (N + D / 2^60) / 60, a value from 2^e to
\* 2^(e + 1).  In units of the last bit, 2^(e - 52), the exact value is
\* Q + (r * W + D) / (60 * W), where N * 2^(52 - e) = 60 * Q + r and
\* W = 2^(e + 8); the double is Q + k for the integer k nearest to that
\* fraction, and Q + k is even when two are equally near.
Nearest[N \in Int, D \in Int, e \in Int] ==
    LET R == ((N % 120) * PowerOfTwoMod120(52 - e)) % 120
        r == R % 60
        odd == R \div 60
        W == 2^(e + 8)
        T == r * W + D
        lower == T \div (60 * W)
        rest == T % (60 * W)
        k == IF 2 * rest > 60 * W THEN lower + 1
             ELSE IF 2 * rest < 60 * W THEN lower
             ELSE IF (odd + lower) % 2 = 0 THEN lower
             ELSE lower + 1
    IN [sixtieths |-> N, error |-> (60 * k - r) * W]

\* the double nearest to (N + D / 2^60) / 60
Round[N \in Int, D \in Int] == Nearest[N, D, Exponent[N, D]]

\* n / 60.0, for a whole number n
Quotient(n) == IF n = 0 THEN Float(0) ELSE Round[n, 0]

\* x + y, for floats x >= 0 and y >= 0.  The loop adds 0 or at least
\* 1/60, so a sum that is rounded is at least 2^-6.
Plus[x \in Floats, y \in Floats] ==
    LET N == x.sixtieths + y.sixtieths
        D == x.error + y.error
    IN IF y = Float(0) \/ ~AtLeastPowerOfTwo(N, D, -6) THEN
           [sixtieths |-> N, error |-> D]
       ELSE Round[N, D]

\* x - n, for a float x and a whole number n with 0 <= n <= x: the
\* difference is a multiple of the last bit of x and no larger than x, so
\* it is a double and nothing is rounded
Minus(x, n) == [x EXCEPT !.sixtieths = @ - Units(n)]

(***************************************************************************)
(* The requests file.  A line is unparseable (json.loads raises), or it    *)
(* parses into something whose tokens cannot be counted                    *)
(* (num_tokens_consumed_from_request raises: KeyError for an object        *)
(* without "input", TypeError for an "input" that is neither a string nor  *)
(* a list, or any JSON value that is no object), or it is a request with   *)
(* the token count num_tokens_consumed_from_request gives it and its       *)
(* "metadata" key: absent, an empty mapping, or a non-empty mapping.  The  *)
(* "input" of a line is absent, a text (a string or a list), or something  *)
(* other.                                                                  *)
(***************************************************************************)
BadLine ==
    [ok |-> FALSE, counts |-> FALSE, input |-> "absent",
     token_consumption |-> 0, metadata |-> "absent"]

\* an object without "input"
UncountedLine ==
    [ok |-> TRUE, counts |-> FALSE, input |-> "absent",
     token_consumption |-> 0, metadata |-> "absent"]

\* an "input" that is no text, or a line that is no object
MistypedLine ==
    [ok |-> TRUE, counts |-> FALSE, input |-> "other",
     token_consumption |-> 0, metadata |-> "absent"]

RequestLines ==
    [ok : {TRUE}, counts : {TRUE}, input : {"text"},
     token_consumption : TokenCosts, metadata : {"absent"}]

Lines == RequestLines \cup {BadLine, UncountedLine, MistypedLine}

Files == UNION {[1..n -> Lines] : n \in 0..MaxLines}

(***************************************************************************)
(* StatusTracker                                                           *)
(***************************************************************************)
StatusTracker ==
    [num_tasks_started |-> 0,
     num_tasks_in_progress |-> 0,
     num_tasks_succeeded |-> 0,
     num_tasks_failed |-> 0,
     num_rate_limit_errors |-> 0,
     num_api_errors |-> 0,
     num_other_errors |-> 0,
     time_of_last_rate_limit_error |-> 0]

NoEvent == [op |-> "none", task |-> NoRequest, response |-> "none"]

\* a program that makes no JobManager
NoManager == "none"

\* a run started from the library with both file paths, its requests
\* file on the disk, no results file yet, and ".jsonl" in the file name
\* of save_filepath
LibraryRun ==
    [entry |-> "library", dry_run |-> FALSE, requests_given |-> TRUE,
     save_given |-> TRUE, requests_found |-> TRUE,
     save_found |-> FALSE, api_key |-> TRUE, jsonl |-> TRUE,
     renamed_directory_found |-> TRUE, create_requests_file |-> FALSE,
     examples_found |-> TRUE, requests_is_example |-> FALSE,
     save_is_example |-> FALSE]

\* the values run() and the loop start from
Unstarted ==
    /\ requests = 0
    /\ requests_retry_queue = <<>>
    /\ task_id_generator = 0
    /\ status_tracker = StatusTracker
    /\ next_request = NoRequest
    /\ available_request_capacity = Float(max_requests_per_minute)
    /\ available_token_capacity = Float(max_tokens_per_minute)
    /\ last_update_time = StartTime
    /\ file_not_finished = TRUE
    /\ api_requests = <<>>
    /\ tasks = {}
    /\ wake_time = 0
    /\ clock = StartTime
    /\ launched = <<>>
    /\ event = NoEvent
    /\ admitted = <<>>

\* the state of every run after run() has set up the loop
Started ==
    /\ args = LibraryRun
    /\ Unstarted
    /\ manager = NoManager
    /\ save_file = <<>>
    /\ with_errors_file = <<>>
    /\ example_requests_file = 0
    /\ pc = "start"

\* with max_attempts = 0 a request that fails is retried without end, and
\* the file is one line shorter
Init ==
    /\ max_requests_per_minute \in RequestLimits
    /\ max_tokens_per_minute \in TokenLimits
    /\ max_attempts \in AttemptLimits
    /\ requests_file \in Files
    /\ max_attempts = 0 => Len(requests_file) < MaxLines
    /\ service = Responses
    /\ quantum = Quantum
    /\ horizon = StartTime + MaxTicks * Quantum
    /\ relative = FALSE
    /\ history = FALSE
    /\ Started

(***************************************************************************)
(* APIRequest                                                              *)
(***************************************************************************)
\* the keys of the object json.loads makes of the line
Keys(line) ==
    {"model", "input"}
        \cup IF line.metadata = "absent" THEN {} ELSE {"metadata"}

\* dict.pop(key, None): the object without the key
Pop(keys, key) == keys \ {key}

\* takes the id from the content of the line
APIRequestNumberedByLine(task_id, line) ==
    [task_id |-> line.token_consumption,
     request_json |-> Pop(Keys(line), "metadata"),
     token_consumption |-> line.token_consumption,
     attempts_left |-> max_attempts,
     metadata |-> line.metadata,
     result |-> <<>>]

APIRequest(task_id, line) ==
    [task_id |-> task_id,
     request_json |-> Pop(Keys(line), "metadata"),
     token_consumption |-> line.token_consumption,
     attempts_left |-> max_attempts,
     metadata |-> line.metadata,
     result |-> <<>>]

\* the object with task id j
Request(j) == api_requests[j + 1]

(***************************************************************************)
(* Get next request (if one is not already waiting for capacity).          *)
(***************************************************************************)
\* counts the task as in progress but not as started
TaskStartedUncounted(st) ==
    [st EXCEPT !.num_tasks_in_progress = @ + 1]

\* counts the task as started twice
TaskStartedTwice(st) ==
    [st EXCEPT !.num_tasks_started = @ + 2,
               !.num_tasks_in_progress = @ + 1]

TaskStarted(st) ==
    [st EXCEPT !.num_tasks_started = @ + 1,
               !.num_tasks_in_progress = @ + 1]

Fetched ==
    [next_request |-> next_request,
     requests_retry_queue |-> requests_retry_queue,
     requests |-> requests,
     file_not_finished |-> file_not_finished,
     api_requests |-> api_requests,
     launched |-> launched,
     task_id_generator |-> task_id_generator,
     status_tracker |-> status_tracker,
     raised |-> "none"]

\* a queue that gives its newest item first
GetNewest(queue) ==
    [item |-> queue[Len(queue)], rest |-> SubSeq(queue, 1, Len(queue) - 1)]

\* gives the oldest item and leaves it on the queue
Peek(queue) == [item |-> Head(queue), rest |-> queue]

\* requests_retry_queue.get_nowait()
GetNowait(queue) == [item |-> Head(queue), rest |-> Tail(queue)]

\* json.loads takes whatever the line holds
ParsesAnything(line) == TRUE

\* json.loads(line) returns
Parses(line) == line.ok

\* num_tokens_consumed_from_request(request_json, ...) returns
Counts(line) == line.counts

\* the exception it raises otherwise: request_json["input"] raises
\* KeyError for an object without the key; an input that is neither a
\* string nor a list, and a line that is no object, give TypeError
CountError(line) ==
    IF line.input = "absent" THEN "KeyError" ELSE "TypeError"

GetNextRequest ==
    IF next_request # NoRequest THEN Fetched
    ELSE IF requests_retry_queue # <<>> THEN
        [Fetched EXCEPT
            !.next_request = GetNowait(requests_retry_queue).item,
            !.requests_retry_queue = GetNowait(requests_retry_queue).rest]
    ELSE IF file_not_finished THEN
        IF requests >= Len(requests_file) THEN
            \* StopIteration
            [Fetched EXCEPT !.file_not_finished = FALSE]
        ELSE IF ~Parses(requests_file[requests + 1]) THEN
            \* json.loads raises: the line is consumed, the run ends
            [Fetched EXCEPT !.requests = @ + 1,
                            !.raised = "JSONDecodeError"]
        ELSE IF ~Counts(requests_file[requests + 1]) THEN
            \* the arguments of APIRequest(...) are evaluated in order:
            \* next(task_id_generator) has run when the token count raises
            [Fetched EXCEPT !.requests = @ + 1,
                            !.task_id_generator = @ + 1,
                            !.raised =
                                CountError(requests_file[requests + 1])]
        ELSE
            [Fetched EXCEPT
                !.requests = @ + 1,
                !.next_request = task_id_generator,
                !.task_id_generator = @ + 1,
                !.api_requests =
                    Append(@, APIRequest(task_id_generator,
                                         requests_file[requests + 1])),
                !.launched = Append(@, 0),
                !.status_tracker = TaskStarted(@)]
    ELSE Fetched

(***************************************************************************)
(* Update available capacity.                                              *)
(***************************************************************************)
\* a refill at twice the rate
UpdateCapacityTwice(capacity, limit, seconds_since_update) ==
    Least[Plus[capacity, Quotient(2 * limit * seconds_since_update)],
          Float(limit)]

\* no refill at all
UpdateCapacityNone(capacity, limit, seconds_since_update) == capacity

\* a refill that forgets the min(..., limit)
UpdateCapacityUnclamped(capacity, limit, seconds_since_update) ==
    Plus[capacity, Quotient(limit * seconds_since_update)]

\* a refill in whole units only
UpdateCapacityWhole(capacity, limit, seconds_since_update) ==
    Least[Plus[capacity,
               Float((limit * seconds_since_update) \div Period)],
          Float(limit)]

\* min(capacity + limit * seconds_since_update / 60.0, limit)
UpdateCapacity(capacity, limit, seconds_since_update) ==
    Least[Plus[capacity, Quotient(limit * seconds_since_update)],
          Float(limit)]

(***************************************************************************)
(* If enough capacity available, call API.                                 *)
(***************************************************************************)
\* tests the token capacity only
EnoughTokens(request_capacity, token_capacity, next_request_tokens) ==
    AtLeast(token_capacity, Float(next_request_tokens))

\* tests the request capacity only
EnoughRequests(request_capacity, token_capacity, next_request_tokens) ==
    AtLeast(request_capacity, Float(1))

\* asks for a whole token even when the request needs none
EnoughForOneToken(request_capacity, token_capacity, next_request_tokens) ==
    /\ AtLeast(request_capacity, Float(1))
    /\ AtLeast(token_capacity, Float(Max(next_request_tokens, 1)))

EnoughCapacity(request_capacity, token_capacity, next_request_tokens) ==
    /\ AtLeast(request_capacity, Float(1))
    /\ AtLeast(token_capacity, Float(next_request_tokens))

\* a launch that costs no attempt
KeepAttempt(attempts_left) == attempts_left

\* next_request.attempts_left -= 1
UseAttempt(attempts_left) == attempts_left - 1

\* takes nothing from the capacity
TakeNothing(capacity, amount) == capacity

\* available capacity -= amount
Take(capacity, amount) == Minus(capacity, amount)

\* breaks one task early
AllFinishedEarly(st) == st.num_tasks_in_progress <= 1

\* if all tasks are finished, break
AllFinished(st) == st.num_tasks_in_progress = 0

(***************************************************************************)
(* after_finishing, which the loop calls after its break: if tasks have    *)
(* failed, the results file is renamed.  The new name is the old one with  *)
(* every ".jsonl" replaced by "_with_errors.jsonl"; a name without         *)
(* ".jsonl" stays as it is, and the file with it.  os.rename puts the file *)
(* in the place of whatever had the new name.  The replacement changes the *)
(* names of directories too: with ".jsonl" in a directory name the new     *)
(* name lies in another directory, and os.rename raises FileNotFoundError  *)
(* if that directory does not exist.  With ".jsonl" in the file name only, *)
(* the directory of the new name is the directory of the file.             *)
(***************************************************************************)
\* the file is never renamed
AfterFinishingKeepsName(st, file, with_errors) ==
    [save_file |-> file, with_errors_file |-> with_errors,
     raised |-> "none"]

AfterFinishing(st, file, with_errors) ==
    IF st.num_tasks_failed > 0 /\ args.jsonl
    THEN IF args.renamed_directory_found
         THEN [save_file |-> <<>>, with_errors_file |-> file,
               raised |-> "none"]
         ELSE [save_file |-> file, with_errors_file |-> with_errors,
               raised |-> "FileNotFoundError"]
    ELSE [save_file |-> file, with_errors_file |-> with_errors,
          raised |-> "none"]

(***************************************************************************)
(* One pass of the while loop, from its top to the break or to the         *)
(* micro-sleep, and after_finishing if it ends with the break.             *)
(***************************************************************************)
Iteration ==
    \E f \in {GetNextRequest},
       request_capacity \in
           {UpdateCapacity(available_request_capacity,
                           max_requests_per_minute,
                           clock - last_update_time)},
       token_capacity \in
           {UpdateCapacity(available_token_capacity,
                           max_tokens_per_minute,
                           clock - last_update_time)} :
    LET held == f.next_request
        tokens == IF held = NoRequest THEN 0
                  ELSE f.api_requests[held + 1].token_consumption
        call == /\ held # NoRequest
                /\ EnoughCapacity(request_capacity, token_capacity, tokens)
    IN
    IF f.raised # "none" THEN
        /\ pc' = "aborted"
        /\ requests' = f.requests
        /\ task_id_generator' = f.task_id_generator
        /\ event' = [op |-> "raise", task |-> NoRequest,
                     response |-> f.raised]
        /\ UNCHANGED <<config, manager, requests_retry_queue,
                       status_tracker, next_request,
                       available_request_capacity, available_token_capacity,
                       last_update_time, file_not_finished, api_requests,
                       tasks, files, wake_time, clock, launched,
                       admitted>>
    ELSE
        /\ requests' = f.requests
        /\ requests_retry_queue' = f.requests_retry_queue
        /\ task_id_generator' = f.task_id_generator
        /\ file_not_finished' = f.file_not_finished
        /\ status_tracker' = f.status_tracker
        /\ last_update_time' = clock
        /\ available_request_capacity' =
              IF call THEN Take(request_capacity, 1) ELSE request_capacity
        /\ available_token_capacity' =
              IF call THEN Take(token_capacity, tokens) ELSE token_capacity
        /\ api_requests' =
              IF call
              THEN [f.api_requests EXCEPT
                       ![held + 1].attempts_left = UseAttempt(@)]
              ELSE f.api_requests
        /\ launched' =
              IF call THEN [f.launched EXCEPT ![held + 1] = @ + 1]
              ELSE f.launched
        /\ tasks' = IF call THEN tasks \cup {held} ELSE tasks
        /\ next_request' = IF call THEN NoRequest ELSE held
        /\ IF AllFinished(f.status_tracker) THEN
               \E finished \in {AfterFinishing(f.status_tracker, save_file,
                                                with_errors_file)} :
                   /\ save_file' = finished.save_file
                   /\ with_errors_file' = finished.with_errors_file
                   /\ IF finished.raised = "none" THEN
                          /\ pc' = "done"
                          /\ event' = [op |-> IF call THEN "call_api"
                                              ELSE "wait",
                                       task |-> held, response |-> "none"]
                      ELSE
                          \* the exception of os.rename ends the run
                          /\ pc' = "aborted"
                          /\ event' = [op |-> "raise", task |-> NoRequest,
                                       response |-> finished.raised]
           ELSE
               /\ pc' = "sleep"
               /\ save_file' = save_file
               /\ with_errors_file' = with_errors_file
               /\ event' = [op |-> IF call THEN "call_api" ELSE "wait",
                            task |-> held, response |-> "none"]
        /\ admitted' =
              IF call /\ history
              THEN Append(admitted, [time |-> clock, tokens |-> tokens])
              ELSE admitted
        /\ UNCHANGED <<config, manager, example_requests_file, wake_time,
                       clock>>

\* entering the loop
Start ==
    /\ pc = "start"
    /\ Iteration

(***************************************************************************)
(* The micro-sleep ends: if a rate limit error was hit recently, pause to  *)
(* cool down; otherwise go round the loop.                                 *)
(***************************************************************************)
RemainingPause(now, st) ==
    rate_limit_pause - (now - st.time_of_last_rate_limit_error)

AfterSleep ==
    /\ pc = "sleep"
    /\ IF clock - status_tracker.time_of_last_rate_limit_error
              < rate_limit_pause
       THEN /\ pc' = "cooldown"
            /\ wake_time' = clock + RemainingPause(clock, status_tracker)
            /\ event' = [op |-> "pause", task |-> NoRequest,
                         response |-> "none"]
            /\ UNCHANGED <<config, manager, requests,
                           requests_retry_queue, task_id_generator,
                           status_tracker, next_request,
                           available_request_capacity,
                           available_token_capacity, last_update_time,
                           file_not_finished, api_requests, tasks, files,
                           clock, launched, admitted>>
       ELSE Iteration

\* the cool-down sleep ends
AfterPause ==
    /\ pc = "cooldown"
    /\ clock >= wake_time
    /\ Iteration

(***************************************************************************)
(* APIRequest.call_api, from the arrival of the response to its end.       *)
(*                                                                         *)
(* The responses of the transport:                                         *)
(*   "ok"          a mapping without an "error" key                        *)
(*   "rate_limit"  {"error": {"message": "Rate limit ..."}}                *)
(*   "api_error"   {"error": {...}} whose message has no "Rate limit"      *)
(*   "error_str"   {"error": "..."}: the error indicator is no mapping, so *)
(*                 response["error"].get raises AttributeError inside the  *)
(*                 try block                                               *)
(*   "raise"       session.post or response.json() raises                  *)
(***************************************************************************)
HasError(response) == response \in {"rate_limit", "api_error", "error_str"}

\* every error in the response is taken for a rate limit error
CountEveryErrorAsRateLimit(st, response, now) ==
    IF ~HasError(response) THEN st
    ELSE [st EXCEPT !.time_of_last_rate_limit_error = now,
                    !.num_rate_limit_errors = @ + 1]

\* the try block: if "error" in response ...
CountApiError(st, response, now) ==
    IF ~HasError(response) THEN st
    ELSE LET counted == [st EXCEPT !.num_api_errors = @ + 1] IN
         IF response = "rate_limit"
         THEN [counted EXCEPT !.time_of_last_rate_limit_error = now,
                              !.num_rate_limit_errors = @ + 1,
                              !.num_api_errors = @ - 1]
         ELSE counted

\* whether the try block raises
Raises(response) == response \in {"error_str", "raise"}

\* except Exception as e
CountOtherError(st) == [st EXCEPT !.num_other_errors = @ + 1]

\* the value of `error` after the try statement ("None": no error)
ErrorOf(response) ==
    CASE response = "ok" -> "None"
      [] response = "rate_limit" -> "rate_limit"
      [] response = "api_error" -> "api_error"
      [] response = "error_str" -> "AttributeError"
      [] response = "raise" -> "Exception"

\* keeps the error of the last attempt only
ReplaceError(result, error) == <<error>>

\* self.result.append(error)
AppendError(result, error) == Append(result, error)

\* if self.attempts_left
ShouldRetry(attempts_left) == attempts_left # 0

\* if self.metadata
Truthy(metadata) == metadata = "full"

\* the line append_to_jsonl writes
Data(request, outcome, result) ==
    [task_id |-> request.task_id,
     payload |-> request.request_json,
     outcome |-> outcome,
     result |-> result,
     elements |-> IF Truthy(request.metadata) THEN 3 ELSE 2]

\* opens the file for writing: the new line replaces what was there
WriteJsonl(file, data) == <<data>>

\* puts the new line first
PrependToJsonl(file, data) == <<data>> \o file

\* append_to_jsonl: open(filename, "a") and write the line
AppendToJsonl(file, data) == Append(file, data)

\* leaves the failed task in progress
TaskFailedStillInProgress(st) ==
    [st EXCEPT !.num_tasks_failed = @ + 1]

\* leaves the failed task out of num_tasks_failed
TaskFailedUncounted(st) ==
    [st EXCEPT !.num_tasks_in_progress = @ - 1]

TaskFailed(st) ==
    [st EXCEPT !.num_tasks_in_progress = @ - 1,
               !.num_tasks_failed = @ + 1]

\* counts the saved task as failed
TaskSucceededAsFailed(st) ==
    [st EXCEPT !.num_tasks_in_progress = @ - 1,
               !.num_tasks_failed = @ + 1]

\* leaves the finished task in progress
TaskSucceededStillInProgress(st) ==
    [st EXCEPT !.num_tasks_succeeded = @ + 1]

\* counts an api error for a saved response
TaskSucceededCountsError(st) ==
    [st EXCEPT !.num_tasks_in_progress = @ - 1,
               !.num_tasks_succeeded = @ + 1,
               !.num_api_errors = @ + 1]

TaskSucceeded(st) ==
    [st EXCEPT !.num_tasks_in_progress = @ - 1,
               !.num_tasks_succeeded = @ + 1]

\* failed attempts of the requests with task ids below n
RECURSIVE Failures(_)
Failures(n) ==
    IF n = 0 THEN 0 ELSE Len(api_requests[n].result) + Failures(n - 1)

\* call_api is a task of its own.  It goes on from its await when the
\* loop is in one of its sleeps, and also when the loop has raised: the
\* event loop stops at the end of a pass, so a task whose answer has
\* come goes on once more before asyncio.run cancels what is left
CallApi(j, response) ==
    /\ pc \in {"sleep", "cooldown", "aborted"}
    /\ j \in tasks
    \* the service fails at most MaxErrors attempts of a run
    /\ response # "ok" => Failures(Len(api_requests)) < MaxErrors
    /\ LET counted == CountApiError(status_tracker, response, clock)
           st == IF Raises(response) THEN CountOtherError(counted)
                 ELSE counted
           error == ErrorOf(response)
           result == AppendError(Request(j).result, error)
       IN
       /\ tasks' = tasks \ {j}
       /\ IF error # "None" THEN
              /\ api_requests' = [api_requests EXCEPT ![j + 1].result = result]
              /\ IF ShouldRetry(Request(j).attempts_left) THEN
                     /\ requests_retry_queue' = Append(requests_retry_queue, j)
                     /\ save_file' = save_file
                     /\ status_tracker' = st
                 ELSE
                     /\ requests_retry_queue' = requests_retry_queue
                     /\ save_file' =
                           AppendToJsonl(save_file,
                                         Data(Request(j), "failed", result))
                     /\ status_tracker' = TaskFailed(st)
          ELSE
              /\ api_requests' = api_requests
              /\ requests_retry_queue' = requests_retry_queue
              /\ save_file' =
                    AppendToJsonl(save_file,
                                  Data(Request(j), "response", <<>>))
              /\ status_tracker' = TaskSucceeded(st)
    /\ event' = [op |-> "response", task |-> j, response |-> response]
    /\ UNCHANGED <<config, manager, requests, task_id_generator,
                   next_request, available_request_capacity,
                   available_token_capacity, last_update_time,
                   file_not_finished, with_errors_file,
                   example_requests_file, pc, wake_time, clock, launched,
                   admitted>>

(***************************************************************************)
(* Time passes while the loop sleeps.  The timers are prompt: the          *)
(* micro-sleep ends before a second quantum has passed, the cool-down      *)
(* sleep at the first clock sample that is not before its due time.        *)
(*                                                                         *)
(* A run of bounded length stops its clock at the horizon.  A run of       *)
(* unbounded length keeps time relative to now: the code reads the clock   *)
(* only to take its difference from a stored time (last_update_time,       *)
(* time_of_last_rate_limit_error, the end of the cool-down sleep), so      *)
(* moving every stored time back by a quantum is the same as moving the    *)
(* clock forward by one.  A stored time stops moving back once every test  *)
(* of the code gives the same answer for all older times: a refill over    *)
(* Period seconds or more fills the bucket, a rate limit error that is     *)
(* rate_limit_pause seconds old or older causes no pause, and a sleep      *)
(* whose end has come is over.                                             *)
(***************************************************************************)
\* a stored time, one quantum older, kept at keep or later
Older(time, keep) == Max(time - quantum, Min(time, keep))

Tick ==
    /\ pc \in {"sleep", "cooldown"}
    /\ pc = "sleep" => clock = last_update_time
    /\ pc = "cooldown" => clock < wake_time
    /\ IF relative THEN
           /\ clock' = clock
           /\ last_update_time' = Older(last_update_time, clock - Period)
           /\ wake_time' = Older(wake_time, clock)
           /\ status_tracker' =
                 [status_tracker EXCEPT !.time_of_last_rate_limit_error =
                     Older(@, clock - rate_limit_pause)]
       ELSE
           /\ clock + quantum <= horizon
           /\ clock' = clock + quantum
           /\ UNCHANGED <<last_update_time, wake_time, status_tracker>>
    /\ UNCHANGED <<config, manager, requests, requests_retry_queue,
                   task_id_generator,
                   next_request, available_request_capacity,
                   available_token_capacity, file_not_finished, api_requests,
                   tasks, files, pc, launched, event, admitted>>

(***************************************************************************)
(* The loop has raised: asyncio.run cancels the tasks that are left.       *)
(* CancelledError is a BaseException, which call_api does not catch: the   *)
(* tasks end without a result line, a retry or a count.                    *)
(***************************************************************************)
CancelAllTasks ==
    /\ pc = "aborted"
    /\ tasks # {}
    /\ tasks' = {}
    /\ event' = [op |-> "cancel", task |-> NoRequest, response |-> "none"]
    /\ UNCHANGED <<config, manager, requests, requests_retry_queue,
                   task_id_generator, status_tracker, next_request,
                   available_request_capacity, available_token_capacity,
                   last_update_time, file_not_finished, api_requests,
                   files, pc, wake_time, clock, launched, admitted>>

\* the steps of the loop and of the calls
Run ==
    \/ Start
    \/ AfterSleep
    \/ AfterPause
    \/ \E j \in tasks, response \in service : CallApi(j, response)
    \/ Tick

Next == Run \/ CancelAllTasks

Spec == Init /\ [][Next]_vars

(***************************************************************************)
(* Longer runs, with the launches recorded and the clock sampled every     *)
(* half period.  The lines parse, no request needs more tokens than the    *)
(* limit, max_attempts is positive, and the failures of the               *)
(* service are rate limit errors.  The runs are of two kinds:              *)
(*   paced   one request per period, requests that use no tokens, two      *)
(*           periods long;                                                 *)
(*   burst   three requests per period, a token limit that one request can *)
(*           use up or nearly so, one period long.                         *)
(***************************************************************************)
LongQuantum == Period \div 2

MinuteTokenLimits == TokenLimits \cup {4}

MinuteLines == {line \in RequestLines : line.token_consumption <= 4}

FilesOf(lines) == UNION {[1..n -> lines] : n \in 0..MaxLines}

InitPaced ==
    /\ max_requests_per_minute = 1
    /\ max_tokens_per_minute \in TokenLimits
    /\ requests_file \in
          FilesOf({line \in MinuteLines : line.token_consumption = 0})
    /\ horizon = StartTime + 2 * Period

InitBurst ==
    /\ max_requests_per_minute = 3
    /\ max_tokens_per_minute \in MinuteTokenLimits
    /\ requests_file \in FilesOf(MinuteLines)
    /\ horizon = StartTime + Period

InitMinute ==
    /\ InitPaced \/ InitBurst
    /\ max_attempts \in AttemptLimits \ {0}
    /\ service = {"ok", "rate_limit"}
    /\ quantum = LongQuantum
    /\ relative = FALSE
    /\ history = TRUE
    /\ Started

\* every line parses and can be counted, so the loop raises only at the
\* renaming, when no call is in flight: there is nothing to cancel
SpecMinute == InitMinute /\ [][Run]_vars

(***************************************************************************)
(* Runs of one period on the fine clock, under a limit of one request per  *)
(* period: the refill of a quantum is 1/12, which no float holds exactly.  *)
(***************************************************************************)
InitFine ==
    /\ max_requests_per_minute = 1
    /\ max_tokens_per_minute \in TokenLimits
    /\ max_attempts = 2
    /\ requests_file \in
          FilesOf({line \in RequestLines : line.token_consumption = 0})
    /\ service = {"ok", "rate_limit"}
    /\ quantum = Quantum
    /\ horizon = StartTime + Period
    /\ relative = FALSE
    /\ history = FALSE
    /\ Started

\* every line parses and can be counted, so the loop raises only at the
\* renaming, when no call is in flight: there is nothing to cancel
SpecFine == InitFine /\ [][Run]_vars

(***************************************************************************)
(* Runs of unbounded length, for the properties of progress.  asyncio      *)
(* runs every callback that is ready, so the loop goes on when its sleep   *)
(* ends; every sleep ends, because time advances; and every call that is   *)
(* in flight returns or raises.  The clock is sampled once a period, every *)
(* request uses tokens, and max_attempts is positive.                      *)
(***************************************************************************)
LiveLines ==
    {line \in Lines : ~line.counts \/ line.token_consumption > 0}

InitLive ==
    /\ max_requests_per_minute \in RequestLimits
    /\ max_tokens_per_minute \in TokenLimits
    /\ max_attempts \in AttemptLimits \ {0}
    /\ requests_file \in UNION {[1..n -> LiveLines] : n \in 0..MaxLines}
    /\ service = {"ok", "rate_limit", "raise"}
    /\ quantum = Period
    /\ horizon = StartTime
    /\ relative = TRUE
    /\ history = FALSE
    /\ Started

Fairness ==
    /\ WF_vars(Start)
    /\ WF_vars(AfterSleep)
    /\ WF_vars(AfterPause)
    /\ WF_vars(Tick)
    /\ WF_vars(CancelAllTasks)
    /\ \A j \in 0..(MaxLines - 1) :
          WF_vars(\E response \in service : CallApi(j, response))

SpecLive == InitLive /\ [][Next]_vars /\ Fairness

(***************************************************************************)
(* Startup: the command line entry point cli(), parareq.py run as a        *)
(* program, and the constructor of APIRequestProcessor, up to the call of  *)
(* run().  A start that raises ends the program with the traceback and a   *)
(* non-zero exit status (pc = "refused"); exit() and exit(0) end it with   *)
(* status 0 (pc = "exit0").  A start says which of the two file paths it   *)
(* is given (requests_given, save_given), whether the files they name      *)
(* exist (requests_found, save_found), whether they name the example       *)
(* requests file (requests_is_example, save_is_example), and whether       *)
(* look_for_api_key returns (api_key): --which_api names an API it knows   *)
(* and a key is given or found in the environment; it raises ValueError    *)
(* otherwise.  A run over the example requests file is made under a limit  *)
(* of one request per period.                                              *)
(***************************************************************************)
\* the parameters of APIRequestProcessor.__init__, and those without a
\* default
InitParameters ==
    {"requests_filepath", "api_key", "save_filepath", "request_url",
     "max_requests_per_minute", "max_tokens_per_minute",
     "token_encoding_name", "max_attempts", "logging_level"}

RequiredParameters == {"requests_filepath"}

\* the keywords cli() passes to the constructor
CliKeywords ==
    {"save_filepath", "request_url", "api_key", "which_api",
     "max_requests_per_minute", "max_tokens_per_minute",
     "token_encoding_name", "max_attempts", "logging_level"}

\* the number of positional arguments run() takes besides self, and the
\* number cli() passes
RunParameters == 0

CliRunArguments == 1

\* Python binds a call by keywords when every keyword names a parameter
\* and every parameter without a default is given; otherwise TypeError
Binds(keywords) ==
    /\ keywords \subseteq InitParameters
    /\ RequiredParameters \subseteq keywords

\* a results file already on the disk holds this line
OldLine ==
    [task_id |-> NoRequest, payload |-> {}, outcome |-> "old",
     result |-> <<>>,
     elements |-> 2]

SavedBefore(a) == IF a.save_found THEN <<OldLine>> ELSE <<>>

\* the keywords a program passes to the constructor
LibraryKeywords(a) ==
    (IF a.requests_given THEN {"requests_filepath"} ELSE {})
        \cup (IF a.save_given THEN {"save_filepath"} ELSE {})

\* cli() and parareq.py as a program make the missing save_filepath from
\* requests_filepath, None if --requests_filepath is not given:
\* None.replace raises AttributeError
NoPath(a) == ~a.save_given /\ ~a.requests_given

\* save_filepath is a name when the constructor looks at it: given, or
\* made from requests_filepath by cli() or parareq.py as a program
SavePath(a) == a.save_given \/ (a.entry # "library" /\ a.requests_given)

NeverRefused(a) == "none"

\* the body of __init__: the exception it raises, or "none".
\* os.path.exists(None) and Path(None) raise TypeError
Refusal(a) ==
    IF ~a.requests_given THEN "TypeError"
    ELSE IF ~a.requests_found THEN "FileNotFoundError"
    ELSE IF ~SavePath(a) THEN "TypeError"
    ELSE IF a.save_found THEN "FileExistsError"
    ELSE "none"

\* create_requests_file() writes one line for each of its n_requests jobs
n_requests == 10000

\* the example requests file after create_requests_file(): opened for
\* writing, it holds the new lines whatever it held; without its
\* directory open() raises FileNotFoundError and writes nothing
CreateRequestsFile(a, file) ==
    IF a.examples_found THEN n_requests ELSE file

\* the example requests file after the test of --create_requests_file,
\* which comes after the making of save_filepath
ExampleRequests(a, file) ==
    IF NoPath(a) THEN file
    ELSE IF a.create_requests_file THEN CreateRequestsFile(a, file)
    ELSE file

\* the program calls create_requests_file() and the file is written
Creates(a) ==
    /\ ~NoPath(a)
    /\ a.create_requests_file
    /\ a.examples_found

\* line x of the example requests file as a line of requests:
\* {"model": "text-embedding-ada-002", "input": str(x) + "\n"}.  The
\* default encoding, cl100k_base, counts one token for a number of up to
\* three digits, two for one of four, and one for the line feed
ExampleLine(x) ==
    [ok |-> TRUE, counts |-> TRUE, input |-> "text",
     token_consumption |-> IF x < 1000 THEN 2 ELSE 3,
     metadata |-> "absent"]

ExampleRequestLines == [i \in 1..n_requests |-> ExampleLine(i - 1)]

\* a line of the example requests file as a line of results
ExampleResult ==
    [task_id |-> NoRequest, payload |-> {"model", "input"},
     outcome |-> "example", result |-> <<>>, elements |-> 2]

ExampleResultLines == [i \in 1..n_requests |-> ExampleResult]

\* the requests file after the test of --create_requests_file: the
\* example requests file, if requests_filepath is its path
RequestsFileThen(a, file) ==
    IF Creates(a) /\ a.requests_is_example THEN ExampleRequestLines
    ELSE file

\* the results file after the test of --create_requests_file: the
\* example requests file, if save_filepath is its path
SaveFileThen(a, file) ==
    IF Creates(a) /\ a.save_is_example THEN ExampleResultLines
    ELSE file

\* the start with the two files as they are after the test of
\* --create_requests_file
AfterCreating(a) ==
    [a EXCEPT !.requests_found = @ \/ (Creates(a) /\ a.requests_is_example),
              !.save_found = @ \/ (Creates(a) /\ a.save_is_example)]

\* the program ends with an uncaught exception
Refuse(exception) ==
    /\ pc' = "refused"
    /\ event' = [op |-> "raise", task |-> NoRequest, response |-> exception]

\* the exception cli() ends with, "exit" for exit(0), or "none" when it
\* gets as far as the loop
CliOutcome(a) ==
    IF NoPath(a) THEN "AttributeError"
    ELSE IF a.create_requests_file
    THEN IF a.examples_found THEN "exit" ELSE "FileNotFoundError"
    \* os.path.exists(None) raises TypeError
    ELSE IF ~a.requests_given THEN "TypeError"
    ELSE IF ~a.requests_found THEN "FileNotFoundError"
    ELSE IF ~a.api_key THEN "ValueError"
    ELSE IF ~Binds(CliKeywords) THEN "TypeError"
    ELSE IF Refusal(a) # "none" THEN Refusal(a)
    ELSE IF a.dry_run THEN "exit"
    ELSE IF CliRunArguments # RunParameters THEN "TypeError"
    ELSE "none"

\* cli(), from the parsed arguments to exit(0) or processor.run(...)
Cli ==
    /\ pc = "cli"
    /\ IF CliOutcome(args) = "none"
       THEN pc' = "start" /\ event' = event
       ELSE IF CliOutcome(args) = "exit"
       THEN /\ pc' = "exit0"
            /\ event' = [op |-> "exit", task |-> NoRequest,
                         response |-> "none"]
       ELSE Refuse(CliOutcome(args))
    /\ example_requests_file' = ExampleRequests(args, example_requests_file)
    /\ requests_file' = RequestsFileThen(args, requests_file)
    /\ save_file' = SaveFileThen(args, save_file)
    /\ UNCHANGED <<settings, manager, requests, requests_retry_queue,
                   task_id_generator, status_tracker, next_request,
                   available_request_capacity, available_token_capacity,
                   last_update_time, file_not_finished, api_requests, tasks,
                   with_errors_file, wake_time, clock, launched, admitted>>

\* the exception parareq.py run as a program ends with before run(), or
\* "none": the making of save_filepath, create_requests_file() if asked
\* for, then the constructor, which finds the files as they then are
ScriptOutcome(a) ==
    IF NoPath(a) THEN "AttributeError"
    ELSE IF a.create_requests_file /\ ~a.examples_found
    THEN "FileNotFoundError"
    ELSE Refusal(AfterCreating(a))

\* parareq.py run as a program, from the parsed arguments to run()
Script ==
    /\ pc = "script"
    /\ IF ScriptOutcome(args) = "none"
       THEN pc' = "start" /\ event' = event
       ELSE Refuse(ScriptOutcome(args))
    /\ example_requests_file' = ExampleRequests(args, example_requests_file)
    /\ requests_file' = RequestsFileThen(args, requests_file)
    /\ save_file' = SaveFileThen(args, save_file)
    /\ UNCHANGED <<settings, manager, requests, requests_retry_queue,
                   task_id_generator, status_tracker, next_request,
                   available_request_capacity, available_token_capacity,
                   last_update_time, file_not_finished, api_requests, tasks,
                   with_errors_file, wake_time, clock, launched, admitted>>

\* the exception APIRequestProcessor(...) called from a program ends
\* with, or "none": the binding of the call, then the body of __init__
ConstructOutcome(a) ==
    IF ~Binds(LibraryKeywords(a)) THEN "TypeError" ELSE Refusal(a)

\* APIRequestProcessor(...) called from a program, followed by run()
Construct ==
    /\ pc = "init"
    /\ IF ConstructOutcome(args) = "none"
       THEN pc' = "start" /\ event' = event
       ELSE Refuse(ConstructOutcome(args))
    /\ UNCHANGED <<config, manager, requests, requests_retry_queue,
                   task_id_generator, status_tracker, next_request,
                   available_request_capacity, available_token_capacity,
                   last_update_time, file_not_finished, api_requests, tasks,
                   files, wake_time, clock, launched, admitted>>

\* the starts: from the command line with any combination of the two
\* flags, the two file paths, the two files and the key; parareq.py as a
\* program, which has no --dry_run and a default key, with any
\* combination of its flag, the two paths and the two files; from
\* another program with any combination of the two paths and the two
\* files.  A file is found only under a path: a given one, or the
\* save_filepath made from requests_filepath.  The directory of the
\* example requests file is there or not when the file is asked for, and
\* so is the directory of the new name when save_filepath holds ".jsonl".
\* A given path is or is not the path of the example requests file,
\* which holds ".jsonl" and no "_results.jsonl"; that matters when the
\* file is asked for.  Two paths of the same file find the same, and a
\* file that is found has its directory.
Starts ==
    {a \in [entry : {"cli", "script", "library"}, dry_run : BOOLEAN,
            requests_given : BOOLEAN, save_given : BOOLEAN,
            requests_found : BOOLEAN, save_found : BOOLEAN,
            api_key : BOOLEAN, jsonl : BOOLEAN,
            renamed_directory_found : BOOLEAN,
            create_requests_file : BOOLEAN, examples_found : BOOLEAN,
            requests_is_example : BOOLEAN, save_is_example : BOOLEAN] :
        /\ a.entry # "cli" => (~a.dry_run /\ a.api_key)
        /\ a.entry = "library" => ~a.create_requests_file
        /\ ~a.requests_given => ~a.requests_found
        /\ ~SavePath(a) => (~a.save_found /\ ~a.jsonl)
        /\ ~a.create_requests_file => a.examples_found
        /\ ~a.jsonl => a.renamed_directory_found
        /\ a.requests_is_example =>
              (a.requests_given /\ a.create_requests_file)
        /\ a.save_is_example => (a.save_given /\ a.create_requests_file)
        /\ (a.requests_is_example /\ a.save_is_example) =>
              a.requests_found = a.save_found
        /\ (a.requests_is_example /\ a.requests_found) => a.examples_found
        /\ (a.save_is_example /\ a.save_found) => a.examples_found
        /\ (a.save_is_example \/ (a.requests_is_example /\ ~a.save_given))
              => (a.jsonl /\ a.renamed_directory_found)}

\* the requests files of a start: none if the file is not found, one of
\* as many lines as the results file if the two paths are of one file
StartFiles(a) ==
    IF ~a.requests_found THEN {<<>>}
    ELSE IF a.requests_is_example /\ a.save_is_example
    THEN {file \in Files : Len(file) = Len(SavedBefore(a))}
    ELSE Files

\* max_requests_per_minute of a start
StartLimit(a) == IF a.requests_is_example THEN 1 ELSE 3

\* the lines of the example requests file at the start
ExampleFileBefore(a, requests_lines, save_lines) ==
    IF a.requests_is_example THEN Len(requests_lines)
    ELSE IF a.save_is_example THEN Len(save_lines)
    ELSE 0

InitStartup ==
    /\ args \in Starts
    /\ max_requests_per_minute = StartLimit(args)
    /\ max_tokens_per_minute \in TokenLimits
    /\ max_attempts = 1
    /\ requests_file \in StartFiles(args)
    /\ service = {"ok", "rate_limit"}
    /\ quantum = Quantum
    /\ horizon = StartTime + MaxTicks * Quantum
    /\ relative = FALSE
    /\ history = FALSE
    /\ Unstarted
    /\ manager = NoManager
    /\ save_file = SavedBefore(args)
    /\ with_errors_file = <<>>
    /\ example_requests_file =
          ExampleFileBefore(args, requests_file, save_file)
    /\ pc = CASE args.entry = "cli" -> "cli"
              [] args.entry = "script" -> "script"
              [] OTHER -> "init"

NextStartup == Cli \/ Script \/ Construct \/ Next

SpecStartup == InitStartup /\ [][NextStartup]_vars

(***************************************************************************)
(* Runs over lines with and without a "metadata" key: the key is absent,   *)
(* or its value is an empty mapping, or a mapping with entries.            *)
(***************************************************************************)
MetadataLines ==
    [ok : {TRUE}, counts : {TRUE}, input : {"text"},
     token_consumption : {0}, metadata : Metadata]

InitMetadata ==
    /\ max_requests_per_minute = 3
    /\ max_tokens_per_minute \in TokenLimits
    /\ max_attempts = 1
    /\ requests_file \in FilesOf(MetadataLines)
    /\ service = {"ok", "rate_limit"}
    /\ quantum = Quantum
    /\ horizon = StartTime + MaxTicks * Quantum
    /\ relative = FALSE
    /\ history = FALSE
    /\ Started

\* every line parses and can be counted, so the loop raises only at the
\* renaming, when no call is in flight: there is nothing to cancel
SpecMetadata == InitMetadata /\ [][Run]_vars

(***************************************************************************)
(* rate_limiter.py: a JobManager with a queue of jobs and two limiters,    *)
(* run by one thread.  A program adds jobs and calls start_jobs(); run()   *)
(* takes a job off the queue and attempts it until the queue is empty.     *)
(*                                                                         *)
(* The constructor reads the global name example_task, which               *)
(* rate_limiter.py does not define: it raises NameError unless the         *)
(* program has put that name into the module.                              *)
(*                                                                         *)
(* An allowance is kept in units of 1/per, so that the refill              *)
(* time_passed * rate / per is exact for whole seconds.                    *)
(***************************************************************************)
MaxJobs == 3            \* jobs a program adds

JobRates == {1, 2}

JobPer == 2

JobHorizon == StartTime + JobPer * MaxJobs

\* the processor's variables, which a JobManager does not touch
processor ==
    <<requests, requests_retry_queue, task_id_generator, status_tracker,
      next_request, available_request_capacity, available_token_capacity,
      last_update_time, file_not_finished, api_requests, tasks, files,
      wake_time, launched, admitted>>

\* RateLimiter(rate, per)
RateLimiter(rate, per) ==
    [rate |-> rate, per |-> per, allowance |-> rate * per]

\* a refill that is added without the throttle
UpdateAllowanceUnthrottled(limiter, time_passed) ==
    [limiter EXCEPT !.allowance = @ + time_passed * limiter.rate]

\* RateLimiter.update_allowance
UpdateAllowance(limiter, time_passed) ==
    LET allowance == limiter.allowance + time_passed * limiter.rate IN
    [limiter EXCEPT !.allowance =
        IF allowance > limiter.rate * limiter.per
        THEN limiter.rate * limiter.per
        ELSE allowance]

\* a limiter that never limits
NeverLimited(limiter) == FALSE

\* RateLimiter.is_limited: allowance < 1.0
IsLimited(limiter) == limiter.allowance < limiter.per

\* RateLimiter.update_usage: allowance -= 1.0
UpdateUsage(limiter) == [limiter EXCEPT !.allowance = @ - limiter.per]

\* JobManager(call_rate, call_per, token_rate, token_per, total_timeout)
JobManager(call_rate, call_per, token_rate, token_per, now) ==
    [token_limiter |-> RateLimiter(token_rate, token_per),
     call_limiter |-> RateLimiter(call_rate, call_per),
     last_check |-> now,
     todo_queue |-> <<>>,
     results |-> <<>>]

\* Job(id, function, args); the function returns or raises
Job(id, raises) ==
    [id |-> id, raises |-> raises, status |-> "pending"]

\* try_single_job
TrySingleJob(job) ==
    [job EXCEPT !.status = IF job.raises THEN "failed" ELSE "success"]

\* todo_queue.put(job)
Put(queue, job) == Append(queue, job)

\* a limited job that is not put back
Discard(queue, job) == queue

\* attempt_job reinserts the limited job into the queue
Reinsert(queue, job) == Put(queue, job)

\* the programs: the rates they choose, and whether they define
\* example_task in the module before they make the manager
JobPrograms ==
    [entry : {"jobs"}, call_rate : JobRates, token_rate : JobRates,
     example_task : BOOLEAN]

\* JobManager(...) called by the program
MakeJobManager ==
    /\ pc = "making"
    /\ IF args.example_task
       THEN /\ manager' = JobManager(args.call_rate, JobPer,
                                     args.token_rate, JobPer, clock)
            /\ pc' = "adding"
            /\ event' = [op |-> "JobManager", task |-> NoRequest,
                         response |-> "none"]
       ELSE /\ manager' = manager
            /\ Refuse("NameError")
    /\ UNCHANGED <<config, processor, clock>>

\* manager.add_job(job), for the next job of the program
AddJob(raises) ==
    /\ pc = "adding"
    /\ Len(manager.todo_queue) < MaxJobs
    /\ manager' =
          [manager EXCEPT !.todo_queue =
              Put(@, Job(Len(manager.todo_queue), raises))]
    /\ event' = [op |-> "add_job", task |-> Len(manager.todo_queue),
                 response |-> "none"]
    /\ UNCHANGED <<config, processor, pc, clock>>

\* manager.start_jobs()
StartJobs ==
    /\ pc = "adding"
    /\ pc' = "running"
    /\ event' = [op |-> "start_jobs", task |-> NoRequest,
                 response |-> "none"]
    /\ UNCHANGED <<config, processor, manager, clock>>

\* one round of the while loop of run(): get() and attempt_job
AttemptJob ==
    /\ pc = "running"
    /\ manager.todo_queue # <<>>
    /\ LET job == Head(manager.todo_queue)
           rest == Tail(manager.todo_queue)
           time_passed == clock - manager.last_check
           token_limiter ==
               UpdateAllowance(manager.token_limiter, time_passed)
           call_limiter ==
               UpdateAllowance(manager.call_limiter, time_passed)
       IN
       IF IsLimited(token_limiter) \/ IsLimited(call_limiter)
       THEN /\ manager' =
                  [manager EXCEPT !.last_check = clock,
                                  !.token_limiter = token_limiter,
                                  !.call_limiter = call_limiter,
                                  !.todo_queue = Reinsert(rest, job)]
            /\ event' = [op |-> "limited", task |-> job.id,
                         response |-> "none"]
       ELSE /\ manager' =
                  [manager EXCEPT !.last_check = clock,
                                  !.token_limiter = UpdateUsage(token_limiter),
                                  !.call_limiter = UpdateUsage(call_limiter),
                                  !.todo_queue = rest,
                                  !.results = Append(@, TrySingleJob(job))]
            /\ event' = [op |-> "job", task |-> job.id,
                         response |-> TrySingleJob(job).status]
    /\ UNCHANGED <<config, processor, pc, clock>>

\* the queue is empty: run() returns
RunReturns ==
    /\ pc = "running"
    /\ manager.todo_queue = <<>>
    /\ pc' = "returned"
    /\ event' = [op |-> "return", task |-> NoRequest, response |-> "none"]
    /\ UNCHANGED <<config, processor, manager, clock>>

\* a second passes between two rounds of the loop
Pass ==
    /\ pc = "running"
    /\ clock < JobHorizon
    /\ clock' = clock + 1
    /\ UNCHANGED <<config, processor, manager, pc, event>>

InitJobs ==
    /\ max_requests_per_minute = 0
    /\ max_tokens_per_minute = 0
    /\ max_attempts = 0
    /\ requests_file = <<>>
    /\ service = {}
    /\ quantum = 1
    /\ horizon = JobHorizon
    /\ relative = FALSE
    /\ history = FALSE
    /\ args \in JobPrograms
    /\ Unstarted
    /\ save_file = <<>>
    /\ with_errors_file = <<>>
    /\ example_requests_file = 0
    /\ manager = NoManager
    /\ pc = "making"

NextJobs ==
    \/ MakeJobManager
    \/ \E raises \in BOOLEAN : AddJob(raises)
    \/ StartJobs
    \/ AttemptJob
    \/ RunReturns
    \/ Pass

SpecJobs == InitJobs /\ [][NextJobs]_vars

(***************************************************************************)
(* Properties.                                                             *)
(***************************************************************************)
TaskIds == 0..(Len(api_requests) - 1)

\* the lines of the results file, under the name it has now
Results == save_file \o with_errors_file

\* x < y, for floats
Less(x, y) == ~AtLeast(x, y)

\* the capacity is above 0 and below its limit
PartlyFull(capacity, limit) ==
    /\ Less(Float(0), capacity)
    /\ Less(capacity, Float(limit))

\* C1: in every reachable state the request capacity and the token
\* capacity are each at least 0 and at most their limit.
C1_CapacityWithinLimit ==
    /\ AtLeast(available_request_capacity, Float(0))
    /\ AtMost(available_request_capacity, Float(max_requests_per_minute))
    /\ AtLeast(available_token_capacity, Float(0))
    /\ AtMost(available_token_capacity, Float(max_tokens_per_minute))

\* both buckets were drawn on, then refilled in part by a later pass
C1_Witness ==
    /\ last_update_time > StartTime
    /\ PartlyFull(available_request_capacity, max_requests_per_minute)
    /\ PartlyFull(available_token_capacity, max_tokens_per_minute)
    /\ \E j \in TaskIds : launched[j + 1] > 0 /\ Request(j).token_consumption > 0

\* C2: for every job and every configured max_attempts, call_api is
\* launched for the job at most max_attempts times.
C2_LaunchedAtMostMaxAttempts ==
    \A j \in TaskIds : launched[j + 1] <= max_attempts

\* C2, for the configurations with max_attempts >= 1
C2_LaunchedAtMostMaxAttemptsWhenPositive ==
    max_attempts >= 1 => C2_LaunchedAtMostMaxAttempts

\* C3: after a rate-limit rejection recorded at time T, no request is
\* admitted at a time strictly between T and T + rate_limit_pause.  In a
\* state whose last program step admitted a request, last_update_time is
\* the time of that admission and the tracker holds the latest rejection
\* recorded before it.
C3_NoAdmissionDuringCooldown ==
    (event.op = "call_api" /\ status_tracker.num_rate_limit_errors > 0) =>
        ~(/\ status_tracker.time_of_last_rate_limit_error < last_update_time
          /\ last_update_time <
                status_tracker.time_of_last_rate_limit_error + rate_limit_pause)

\* the task ids waiting in the retry queue
Queued == {requests_retry_queue[i] : i \in 1..Len(requests_retry_queue)}

\* the lines of the results file written for task id j
LinesOf(j) == {i \in 1..Len(Results) : Results[i].task_id = j}

\* C4: every job has at most one line in the results file, a job with a
\* line is out of circulation (not held, not queued, not in flight), and
\* the number of lines is num_tasks_succeeded + num_tasks_failed.
C4_OneLinePerTerminalOutcome ==
    /\ \A j \in TaskIds : Cardinality(LinesOf(j)) <= 1
    /\ \A j \in TaskIds :
          LinesOf(j) # {} =>
              j \notin tasks /\ j \notin Queued /\ next_request # j
    /\ \A j \in Queued : LinesOf(j) = {}
    /\ Len(Results) = status_tracker.num_tasks_succeeded
                          + status_tracker.num_tasks_failed

\* a success line and a failure line, the failed job re-queued once before
C4_Witness ==
    /\ Len(Results) = 2
    /\ \E i \in 1..2 : Results[i].outcome = "response"
    /\ \E i \in 1..2 : /\ Results[i].outcome = "failed"
                       /\ Len(Results[i].result) = 2

\* C5: at every suspension point num_tasks_started = num_tasks_succeeded +
\* num_tasks_failed + num_tasks_in_progress.
C5_TrackerBalance ==
    status_tracker.num_tasks_started =
        status_tracker.num_tasks_succeeded + status_tracker.num_tasks_failed
            + status_tracker.num_tasks_in_progress

\* the loop asleep, one task finished, the other in flight on a retry
C5_Witness ==
    /\ pc \in {"sleep", "cooldown"}
    /\ \E j \in tasks : launched[j + 1] = 2
    /\ status_tracker.num_tasks_in_progress = 1
    /\ status_tracker.num_tasks_succeeded + status_tracker.num_tasks_failed = 1

\* C6: the loop has exited only if the file is exhausted, the retry queue
\* is empty, no request is held, no call is in flight and every job has its
\* line in the results file.
C6_ExitOnlyWhenDrained ==
    pc = "done" =>
        /\ requests = Len(requests_file)
        /\ ~file_not_finished
        /\ requests_retry_queue = <<>>
        /\ next_request = NoRequest
        /\ tasks = {}
        /\ \A j \in TaskIds : LinesOf(j) # {}

\* the loop exited after a file of two requests, one of them retried
C6_Witness ==
    /\ pc = "done"
    /\ Len(requests_file) = 2
    /\ Len(Results) = 2
    /\ \E j \in TaskIds : launched[j + 1] >= 2

\* C7: when the loop has exited, num_tasks_in_progress = 0 and
\* num_tasks_started = num_tasks_succeeded + num_tasks_failed.
C7_CountersAtExit ==
    pc = "done" =>
        /\ status_tracker.num_tasks_in_progress = 0
        /\ status_tracker.num_tasks_started =
              status_tracker.num_tasks_succeeded
                  + status_tracker.num_tasks_failed

\* the loop exited with one task succeeded and one failed
C7_Witness ==
    /\ pc = "done"
    /\ status_tracker.num_tasks_succeeded = 1
    /\ status_tracker.num_tasks_failed = 1

\* the line written last is the line of task id j with this outcome
LastLineIs(j, outcome) ==
    /\ save_file # <<>>
    /\ save_file[Len(save_file)].task_id = j
    /\ save_file[Len(save_file)].outcome = outcome

\* the request queued last is task id j
LastQueuedIs(j) ==
    /\ requests_retry_queue # <<>>
    /\ requests_retry_queue[Len(requests_retry_queue)] = j

\* C8: after a failed attempt the job is back on the retry queue if and
\* only if its attempts_left is > 0; otherwise it is finalized as failed
\* (its failure line is written); never both, never neither.
C8_RequeuedIffAttemptsLeft ==
    (event.op = "response" /\ event.response # "ok") =>
        LET j == event.task IN
        /\ LastQueuedIs(j) <=> Request(j).attempts_left > 0
        /\ LastLineIs(j, "failed") <=> ~(Request(j).attempts_left > 0)

\* C9: a call that ends changes the error counters by classifying its
\* outcome as exactly one kind: a saved response changes none of them, a
\* failed attempt adds 1 to exactly one of num_rate_limit_errors,
\* num_api_errors, num_other_errors and leaves the other two unchanged.
C9_ExactlyOneErrorCounter ==
    [][(event'.op = "response" /\ tasks' # tasks) =>
          LET rate == status_tracker'.num_rate_limit_errors
                          - status_tracker.num_rate_limit_errors
              api == status_tracker'.num_api_errors
                          - status_tracker.num_api_errors
              other == status_tracker'.num_other_errors
                          - status_tracker.num_other_errors
          IN /\ {rate, api, other} \subseteq {0, 1}
             /\ rate + api + other =
                   IF event'.response = "ok" THEN 0 ELSE 1]_vars

\* C10: a call whose response has no error appends exactly one success
\* line for its job, adds 1 to num_tasks_succeeded, takes 1 from
\* num_tasks_in_progress, and changes neither the retry queue nor any
\* other counter.
C10_SuccessStep ==
    [][(event'.op = "response" /\ tasks' # tasks
            /\ event'.response = "ok") =>
          /\ \E elements \in {2, 3} :
                save_file' =
                    Append(save_file,
                           [task_id |-> event'.task,
                            payload |-> Request(event'.task).request_json,
                            outcome |-> "response",
                            result |-> <<>>, elements |-> elements])
          /\ requests_retry_queue' = requests_retry_queue
          /\ status_tracker' =
                [status_tracker EXCEPT
                    !.num_tasks_succeeded = @ + 1,
                    !.num_tasks_in_progress = @ - 1]]_vars

\* a retried job's call has just been saved as a success
C10_Witness ==
    /\ event.op = "response"
    /\ event.response = "ok"
    /\ LastLineIs(event.task, "response")
    /\ launched[event.task + 1] = 2
    /\ status_tracker.num_tasks_succeeded >= 1

(***************************************************************************)
(* The launches of a run, in the order they were made (SpecMinute).        *)
(***************************************************************************)
\* the tokens of launches i..k
RECURSIVE TokensAdmitted(_, _)
TokensAdmitted(i, k) ==
    IF i > k THEN 0 ELSE admitted[k].tokens + TokensAdmitted(i, k - 1)

\* launches i..k lie in one window of length Period
InOneWindow(i, k) ==
    /\ i <= k
    /\ admitted[k].time - admitted[i].time < Period

\* C11 as stated: in any time window of length Period the number of
\* launches does not exceed max_requests_per_minute and the sum of their
\* token consumption does not exceed max_tokens_per_minute.
C11_WindowWithinLimit ==
    \A i, k \in DOMAIN admitted :
        InOneWindow(i, k) =>
            /\ k - i + 1 <= max_requests_per_minute
            /\ TokensAdmitted(i, k) <= max_tokens_per_minute

\* C11: the launches of any time window shorter than Period number at most
\* the request limit plus the refill of the time they span
\* (limit * seconds / Period), and the sum of their token consumption is at
\* most the token limit plus its refill over that time: a full bucket and
\* what the window adds to it.
C11_WindowWithinBucketAndRefill ==
    \A i, k \in DOMAIN admitted :
        InOneWindow(i, k) =>
            LET seconds == admitted[k].time - admitted[i].time IN
            /\ Units(k - i + 1) <=
                  Units(max_requests_per_minute)
                      + max_requests_per_minute * seconds
            /\ Units(TokensAdmitted(i, k)) <=
                  Units(max_tokens_per_minute)
                      + max_tokens_per_minute * seconds

\* one window holds more launches than the request limit, and one holds
\* more tokens than the token limit
C11_Witness ==
    /\ \E i, k \in DOMAIN admitted :
          /\ InOneWindow(i, k)
          /\ k - i + 1 > max_requests_per_minute
    /\ \E i, k \in DOMAIN admitted :
          /\ InOneWindow(i, k)
          /\ TokensAdmitted(i, k) > max_tokens_per_minute

(***************************************************************************)
(* The capacity check of one pass of the loop.                             *)
(***************************************************************************)
\* the capacities the check of this pass sees, after the refill
RequestCapacityNow ==
    UpdateCapacity(available_request_capacity, max_requests_per_minute,
                   clock - last_update_time)

TokenCapacityNow ==
    UpdateCapacity(available_token_capacity, max_tokens_per_minute,
                   clock - last_update_time)

\* attempts_left of request j before the pass (a request read in this pass
\* is created with max_attempts)
AttemptsLeftBefore(j) ==
    IF j + 1 <= Len(api_requests) THEN Request(j).attempts_left
    ELSE max_attempts

\* the step is a pass of the loop that launches call_api
LaunchStep == event'.op = "call_api" /\ tasks' # tasks

\* the step is a pass of the loop that keeps its request waiting
WaitStep ==
    /\ event'.op = "wait"
    /\ event'.task # NoRequest
    /\ clock' = clock
    /\ last_update_time' = clock

\* C12: a request is launched only in a pass where the refilled request
\* capacity is >= 1 and the refilled token capacity is >= its token
\* consumption; that pass takes 1 and the token consumption from the
\* capacities and 1 from attempts_left.  A pass that keeps its request
\* waiting found it not admissible, takes nothing from either capacity,
\* leaves attempts_left unchanged and keeps the request held.  No other
\* step lowers a capacity.
C12_AdmissionStep ==
    [][/\ LaunchStep =>
            LET j == event'.task
                tokens == api_requests'[j + 1].token_consumption
            IN /\ AtLeast(RequestCapacityNow, Float(1))
               /\ AtLeast(TokenCapacityNow, Float(tokens))
               /\ available_request_capacity' = Minus(RequestCapacityNow, 1)
               /\ available_token_capacity' =
                     Minus(TokenCapacityNow, tokens)
               /\ api_requests'[j + 1].attempts_left =
                     AttemptsLeftBefore(j) - 1
       /\ WaitStep =>
            LET j == event'.task
                tokens == api_requests'[j + 1].token_consumption
            IN /\ ~(/\ AtLeast(RequestCapacityNow, Float(1))
                    /\ AtLeast(TokenCapacityNow, Float(tokens)))
               /\ AtLeast(available_request_capacity',
                          available_request_capacity)
               /\ AtLeast(available_token_capacity',
                          available_token_capacity)
               /\ api_requests'[j + 1].attempts_left = AttemptsLeftBefore(j)
               /\ next_request' = j
       /\ (\/ Less(available_request_capacity', available_request_capacity)
           \/ Less(available_token_capacity', available_token_capacity))
            => LaunchStep]_vars

\* a pass has kept a request waiting for tokens that an earlier launch took
C12_Witness ==
    /\ event.op = "wait"
    /\ next_request # NoRequest
    /\ next_request = event.task
    /\ clock > StartTime
    /\ AtLeast(available_request_capacity, Float(1))
    /\ Less(available_token_capacity,
            Float(Request(next_request).token_consumption))
    /\ Request(next_request).token_consumption <= max_tokens_per_minute
    /\ \E j \in tasks : launched[j + 1] = 1

(***************************************************************************)
(* Where the next request comes from.                                      *)
(***************************************************************************)
\* the step reads a line of the requests file
ReadStep == requests' # requests

\* the step takes a request off the retry queue
RetryStep ==
    /\ requests_retry_queue # <<>>
    /\ event'.op \in {"call_api", "wait"}
    /\ requests_retry_queue' # requests_retry_queue

\* C13: a line of the requests file is read only in a step that starts
\* with no request held and an empty retry queue; a step that takes a
\* request off the retry queue starts with no request held, takes the
\* request that was put on the queue first and leaves the others in their
\* order, and reads no line.  So a request on the retry queue is taken
\* before any line not yet read.
C13_RetryQueueFirst ==
    [][/\ ReadStep =>
            /\ next_request = NoRequest
            /\ requests_retry_queue = <<>>
       /\ RetryStep =>
            /\ next_request = NoRequest
            /\ event'.task = Head(requests_retry_queue)
            /\ requests_retry_queue' = Tail(requests_retry_queue)
            /\ requests' = requests]_vars

\* a pass has taken a failed request off the retry queue while a line of
\* the file is still unread
C13_Witness ==
    /\ event.op \in {"call_api", "wait"}
    /\ event.task # NoRequest
    /\ Request(event.task).result # <<>>
    /\ \A i \in DOMAIN requests_retry_queue :
          requests_retry_queue[i] # event.task
    /\ requests < Len(requests_file)
    /\ file_not_finished

(***************************************************************************)
(* Progress (SpecLive).                                                    *)
(***************************************************************************)
\* the request limit is >= 1, every request fits the token limit and
\* max_attempts is >= 1
LimitsAdmitEveryRequest ==
    /\ max_requests_per_minute >= 1
    /\ max_attempts >= 1
    /\ \A i \in DOMAIN requests_file :
          requests_file[i].token_consumption <= max_tokens_per_minute

\* every line of the requests file parses, into a request whose tokens
\* can be counted
WellFormed == \A i \in DOMAIN requests_file : requests_file[i].counts

\* every line has been read, and every line's request has one result line
EveryRequestEnded ==
    /\ requests = Len(requests_file)
    /\ Len(api_requests) = Len(requests_file)
    /\ \A j \in TaskIds : Cardinality(LinesOf(j)) = 1

\* C14 as stated: if the request limit is >= 1, every request fits the
\* token limit and max_attempts is >= 1, then eventually every line of the
\* requests file has been read and every request has one terminal outcome.
C14_EveryLineEnds ==
    LimitsAdmitEveryRequest => <>EveryRequestEnded

\* C14: if moreover every line of the requests file parses, the run is
\* never aborted, and eventually every line has been read and every
\* request has exactly one terminal outcome, whatever failures its
\* attempts met.
C14_EveryParsedLineEnds ==
    (LimitsAdmitEveryRequest /\ WellFormed) =>
        ([](pc # "aborted") /\ <>EveryRequestEnded)

\* every request of a full file has ended, one of them as failed after a
\* rate limit error and one of them saved
C14_Witness ==
    /\ LimitsAdmitEveryRequest
    /\ WellFormed
    /\ EveryRequestEnded
    /\ Len(requests_file) = MaxLines
    /\ status_tracker.num_rate_limit_errors >= 1
    /\ \E i \in DOMAIN Results : Results[i].outcome = "failed"
    /\ \E i \in DOMAIN Results : Results[i].outcome = "response"

\* C15 as stated: for a requests file in which every line parses, the loop
\* eventually exits, for every combination of token consumption, limits
\* and max_attempts.
C15_LoopExits == WellFormed => <>(pc = "done")

\* C15: for a requests file in which every line parses, the loop eventually
\* exits if the request limit is >= 1, every request fits the token limit
\* and max_attempts is >= 1.
C15_LoopExitsWhenAdmissible ==
    (WellFormed /\ LimitsAdmitEveryRequest) => <>(pc = "done")

\* the loop has exited after it made a request wait for request capacity
\* and launched a request a second time
C15_Witness ==
    /\ WellFormed
    /\ LimitsAdmitEveryRequest
    /\ pc = "done"
    /\ max_requests_per_minute = 1
    /\ Len(requests_file) = MaxLines
    /\ \E j \in TaskIds : launched[j + 1] = 2

(***************************************************************************)
(* The error history of a request (APIRequest.result).                     *)
(***************************************************************************)
\* s is t without its last entries
IsPrefix(s, t) ==
    /\ Len(s) <= Len(t)
    /\ SubSeq(t, 1, Len(s)) = s

\* request j waits for a retry: on the retry queue, or held after a failure
WaitsForRetry(j) ==
    \/ j \in Queued
    \/ next_request = j /\ launched[j + 1] > 0

\* C16: while a request waits on the retry queue or is held for a retry,
\* its result has one entry per launch made for it, all of them failed; a
\* step never drops or changes an entry, it only appends the error of the
\* attempt that has just failed; and the line written for a failed request
\* carries the whole result, one entry per launch.
C16_ErrorHistory ==
    /\ [](\A j \in TaskIds :
            /\ WaitsForRetry(j) => Len(Request(j).result) = launched[j + 1]
            /\ \A i \in DOMAIN Results :
                  (Results[i].task_id = j
                        /\ Results[i].outcome = "failed") =>
                      /\ Results[i].result = Request(j).result
                      /\ Len(Results[i].result) = launched[j + 1])
    /\ [][\A j \in TaskIds :
            /\ IsPrefix(Request(j).result, api_requests'[j + 1].result)
            /\ api_requests'[j + 1].result # Request(j).result =>
                  /\ event'.op = "response"
                  /\ event'.task = j
                  /\ api_requests'[j + 1].result =
                        Append(Request(j).result, ErrorOf(event'.response))
         ]_vars

\* a request has been written as failed with the errors of two attempts,
\* in the order they happened
C16_Witness ==
    \E i \in DOMAIN Results :
        /\ Results[i].outcome = "failed"
        /\ Len(Results[i].result) = 2
        /\ Results[i].result[1] # Results[i].result[2]
        /\ launched[Results[i].task_id + 1] = 2

(***************************************************************************)
(* One request per period (SpecMinute).                                    *)
(***************************************************************************)
\* no request of the file uses tokens
NoTokensNeeded ==
    \A i \in DOMAIN requests_file : requests_file[i].token_consumption = 0

\* C17: with max_requests_per_minute = 1 and requests that use no tokens,
\* the first request is launched in the first pass of the loop, at the
\* time the run starts; every later launch is at least Period seconds
\* after the launch before it; and the third launch is at least Period
\* seconds after the start of the run.
C17_OneLaunchPerPeriod ==
    (max_requests_per_minute = 1 /\ NoTokensNeeded) =>
        /\ (pc # "start" /\ requests_file # <<>>) =>
              /\ admitted # <<>>
              /\ admitted[1].time = StartTime
        /\ \A i \in DOMAIN admitted :
              i > 1 => admitted[i].time >= admitted[i - 1].time + Period
        /\ Len(admitted) >= 3 => admitted[3].time >= StartTime + Period

\* a third launch has been made under a limit of one request per period
C17_Witness ==
    /\ max_requests_per_minute = 1
    /\ NoTokensNeeded
    /\ Len(admitted) >= 3
    /\ Len(requests_file) = MaxLines

(***************************************************************************)
(* Requests that use no tokens (SpecMinute).                               *)
(***************************************************************************)
\* the step is a pass of the loop whose capacity check is for request j
PassFor(j) ==
    /\ event'.op \in {"call_api", "wait"}
    /\ event'.task = j
    /\ clock' = clock
    /\ last_update_time' = clock

\* C18: a pass whose request uses no tokens launches it whenever the
\* refilled request capacity is >= 1, whatever the token capacity is, and
\* leaves the token capacity at its refilled value.
C18_NoTokensNoWait ==
    [][\A j \in 0..(Len(api_requests') - 1) :
          (/\ PassFor(j)
           /\ api_requests'[j + 1].token_consumption = 0
           /\ AtLeast(RequestCapacityNow, Float(1))) =>
              /\ LaunchStep
              /\ available_token_capacity' = TokenCapacityNow]_vars

\* a request that uses no tokens has been launched from an empty token
\* bucket
C18_Witness ==
    /\ event.op = "call_api"
    /\ Request(event.task).token_consumption = 0
    /\ available_token_capacity = Float(0)
    /\ max_tokens_per_minute > 0
    /\ event.task \in tasks

(***************************************************************************)
(* Runs of one request.                                                    *)
(***************************************************************************)
\* the entries of a request's result, as a set
Errors(result) == {result[i] : i \in DOMAIN result}

\* the only request of the file has been written as failed, and none of
\* its attempts met a rate limit error
OnlyRequestFailed ==
    /\ Len(requests_file) = 1
    /\ max_attempts >= 1
    /\ \E i \in DOMAIN Results : Results[i].outcome = "failed"
    /\ "rate_limit" \notin Errors(Request(0).result)

\* C19: if every attempt of a request fails with an error that is no rate
\* limit error and max_attempts = k >= 1, then call_api is launched
\* exactly k times for it, one failure line with k entries is written,
\* num_api_errors + num_other_errors grows by exactly k,
\* num_rate_limit_errors is unchanged and num_tasks_failed grows by 1.
C19_AllAttemptsFail ==
    OnlyRequestFailed =>
        /\ launched[1] = max_attempts
        /\ Len(Results) = 1
        /\ Len(Results[1].result) = max_attempts
        /\ status_tracker.num_api_errors + status_tracker.num_other_errors
              = max_attempts
        /\ status_tracker.num_rate_limit_errors = 0
        /\ status_tracker.num_tasks_failed = 1

(***************************************************************************)
(* Runs in which no call has failed.                                       *)
(***************************************************************************)
\* no attempt has failed so far
NoFailureYet ==
    /\ Failures(Len(api_requests)) = 0
    /\ status_tracker.num_rate_limit_errors = 0
    /\ status_tracker.num_api_errors = 0
    /\ status_tracker.num_other_errors = 0

\* C20: as long as every call has succeeded, the retry queue is empty, no
\* request has been launched twice and num_tasks_failed is 0; and when the
\* loop exits after reading N requests, the results file has exactly N
\* lines, one success line per request, num_tasks_succeeded = N and every
\* request has been launched exactly once.
C20_AllCallsSucceed ==
    NoFailureYet =>
        /\ requests_retry_queue = <<>>
        /\ \A j \in TaskIds : launched[j + 1] <= 1
        /\ status_tracker.num_tasks_failed = 0
        /\ pc = "done" =>
              /\ Len(api_requests) = Len(requests_file)
              /\ Len(save_file) = Len(requests_file)
              /\ \A j \in TaskIds :
                    /\ launched[j + 1] = 1
                    /\ \E i \in DOMAIN save_file :
                          /\ save_file[i].task_id = j
                          /\ save_file[i].outcome = "response"
              /\ status_tracker.num_tasks_succeeded = Len(requests_file)

\* the loop has exited after every request of a full file was saved at its
\* first attempt
C20_Witness ==
    /\ NoFailureYet
    /\ pc = "done"
    /\ Len(requests_file) = MaxLines
    /\ Len(save_file) = MaxLines
    /\ status_tracker.num_tasks_succeeded = MaxLines

BeforeStart == pc \in {"cli", "script", "init"}

\* C22: a start whose requests file is missing, or whose results file is
\* already there, never reaches the loop: it ends with an uncaught
\* exception (FileNotFoundError for the missing requests file, with or
\* without the dry run flag), nothing is read or launched, and the
\* results file keeps the content it had.
C22_StartRefused ==
    (~args.requests_found \/ args.save_found) =>
        /\ BeforeStart \/ pc = "refused"
        /\ (~BeforeStart /\ ~args.requests_found) =>
              event.response = "FileNotFoundError"
        /\ requests = 0
        /\ api_requests = <<>>
        /\ tasks = {}
        /\ launched = <<>>
        /\ save_file = SavedBefore(args)

\* cli() was given --create_requests_file with one of the two file
\* paths, and the directory of the example requests file is there
Creating ==
    /\ args.entry = "cli"
    /\ args.create_requests_file
    /\ args.requests_given \/ args.save_given
    /\ args.examples_found

\* parareq.py run as a program has written the example requests file
\* under the path of its requests file, and no results file is there
Supplying ==
    /\ args.entry = "script"
    /\ Creates(args)
    /\ args.requests_is_example
    /\ ~AfterCreating(args).save_found

\* C22, but for the request for the example file: a start whose requests
\* file is missing, or whose results file is already there, never
\* reaches the loop, nothing is read or launched, and the results file
\* keeps the content it had.  It ends with an uncaught exception
\* (FileNotFoundError if the requests file it names is missing, with or
\* without the dry run flag; AttributeError, TypeError or the
\* FileNotFoundError of the example file's missing directory if it names
\* no requests file), unless it was given --create_requests_file with
\* --requests_filepath or --save_filepath and the directory of the
\* example requests file is there.  Then it has first written the
\* example requests file, in the place of the requests file or of the
\* results file if one of them has its path.  cli() has then ended with
\* exit status 0 without testing whether either file exists.  parareq.py
\* as a program has gone on to the constructor, which tests the files as
\* they are after the writing: a requests file that was missing and is
\* now written is read by the loop, unless the results file is there.
\* Only then is the example requests file written by a start that names
\* no requests file or whose requests file is missing.
C22_StartRefusedUnlessCreating ==
    (~args.requests_found \/ args.save_found) =>
        /\ \/ BeforeStart
           \/ IF Supplying THEN pc \notin {"refused", "exit0"}
              ELSE pc = IF Creating THEN "exit0" ELSE "refused"
        /\ (~BeforeStart /\ ~Creating /\ args.requests_given
                /\ ~AfterCreating(args).requests_found) =>
              event.response = "FileNotFoundError"
        /\ (~BeforeStart /\ args.entry = "script"
                /\ AfterCreating(args).requests_found) =>
              \/ Supplying
              \/ event.response =
                    IF args.create_requests_file /\ ~args.examples_found
                    THEN "FileNotFoundError" ELSE "FileExistsError"
        /\ (~BeforeStart /\ ~Creating /\ ~args.requests_given) =>
              event.response = IF args.entry # "library" /\ NoPath(args)
                               THEN "AttributeError"
                               ELSE IF /\ args.create_requests_file
                                       /\ ~args.examples_found
                               THEN "FileNotFoundError"
                               ELSE "TypeError"
        /\ (~BeforeStart /\ Creates(args)) =>
              example_requests_file = n_requests
        /\ (~BeforeStart /\ ~Creates(args)) =>
              example_requests_file = 0
        /\ (~BeforeStart /\ Supplying) =>
              /\ requests_file = ExampleRequestLines
              /\ \A i \in 1..Len(api_requests) :
                    api_requests[i].token_consumption =
                        ExampleLine(i - 1).token_consumption
        /\ ~Supplying =>
              /\ requests = 0
              /\ api_requests = <<>>
              /\ tasks = {}
              /\ launched = <<>>
              /\ save_file =
                    IF BeforeStart THEN SavedBefore(args)
                    ELSE SaveFileThen(args, SavedBefore(args))

\* the constructor has refused a results file that exists, and the file
\* is as it was
C22_Witness ==
    /\ pc = "refused"
    /\ args.requests_found
    /\ args.save_found
    /\ event.response = "FileExistsError"
    /\ save_file = <<OldLine>>

\* C23: a dry run from the command line with the requests file on the
\* disk and an API key ends with exit status 0, having launched no call
\* and written no line.
C23_DryRunExitsZero ==
    (/\ args.entry = "cli"
     /\ args.dry_run
     /\ args.requests_found
     /\ args.api_key
     /\ ~BeforeStart) =>
        /\ pc = "exit0"
        /\ launched = <<>>
        /\ save_file = SavedBefore(args)

(***************************************************************************)
(* The time of the last rate limit error.                                  *)
(***************************************************************************)
\* the step is the end of a call
ResponseStep == event'.op = "response" /\ tasks' # tasks

\* C24: time_of_last_rate_limit_error is 0 as long as no call has been
\* rejected for the rate limit; the end of a call rejected for the rate
\* limit sets it to the time of that step and adds 1 to
\* num_rate_limit_errors; no other step changes either of them; and the
\* time never decreases.
C24_LastRateLimitTime ==
    /\ [](/\ status_tracker.num_rate_limit_errors = 0 =>
                status_tracker.time_of_last_rate_limit_error = 0
          /\ status_tracker.time_of_last_rate_limit_error <= clock)
    /\ [][/\ IF ResponseStep /\ event'.response = "rate_limit"
             THEN /\ status_tracker'.time_of_last_rate_limit_error = clock
                  /\ status_tracker'.num_rate_limit_errors =
                        status_tracker.num_rate_limit_errors + 1
             ELSE /\ status_tracker'.time_of_last_rate_limit_error =
                        status_tracker.time_of_last_rate_limit_error
                  /\ status_tracker'.num_rate_limit_errors =
                        status_tracker.num_rate_limit_errors
          /\ status_tracker'.time_of_last_rate_limit_error >=
                status_tracker.time_of_last_rate_limit_error]_vars

\* a call was rejected for the rate limit, and a later call has ended
\* otherwise without changing the time
C24_Witness ==
    /\ status_tracker.num_rate_limit_errors = 1
    /\ status_tracker.time_of_last_rate_limit_error > 0
    /\ status_tracker.time_of_last_rate_limit_error < clock
    /\ event.op = "response"
    /\ event.response \in {"ok", "api_error", "raise"}

(***************************************************************************)
(* When a task is counted.                                                 *)
(***************************************************************************)
\* the requests launched at least once
Admitted == {j \in TaskIds : launched[j + 1] >= 1}

OutcomeCounters(st) ==
    <<st.num_tasks_succeeded, st.num_tasks_failed,
      st.num_rate_limit_errors, st.num_api_errors, st.num_other_errors>>

\* C25 as stated: a request is counted in num_tasks_started at its first
\* launch, so a request held waiting for capacity is not counted yet.
C25_CountedAtAdmission ==
    status_tracker.num_tasks_started = Cardinality(Admitted)

\* C25 amended: a request is counted when it is made from its line, in the
\* pass that reads the line and before the capacity test, so a request
\* held waiting is already counted; num_tasks_started and
\* num_tasks_in_progress grow by exactly 1 in that pass and in no other
\* step (not when the request is launched later, not when it is retried);
\* num_tasks_in_progress goes down, and the outcome counters change, only
\* at the end of a call.
C25_CountedWhenRead ==
    /\ [](status_tracker.num_tasks_started = Len(api_requests))
    /\ [][LET made == IF Len(api_requests') > Len(api_requests)
                      THEN 1 ELSE 0 IN
          /\ Len(api_requests') > Len(api_requests) => ReadStep
          /\ status_tracker'.num_tasks_started =
                status_tracker.num_tasks_started + made
          /\ ~ResponseStep =>
                /\ status_tracker'.num_tasks_in_progress =
                      status_tracker.num_tasks_in_progress + made
                /\ OutcomeCounters(status_tracker') =
                      OutcomeCounters(status_tracker)
          /\ ResponseStep =>
                status_tracker'.num_tasks_in_progress <=
                    status_tracker.num_tasks_in_progress]_vars

\* a request is held waiting for capacity, never launched and already
\* counted, after another request was launched and retried
C25_Witness ==
    /\ event.op = "wait"
    /\ next_request # NoRequest
    /\ launched[next_request + 1] = 0
    /\ status_tracker.num_tasks_started = 2
    /\ status_tracker.num_tasks_in_progress = 2
    /\ \E j \in TaskIds : launched[j + 1] = 2

(***************************************************************************)
(* What a launch takes from the capacities.                                *)
(***************************************************************************)
\* C26: every launch of a request, the first and each retry, takes exactly
\* 1 from the refilled request capacity and exactly the request's token
\* consumption from the refilled token capacity; the token consumption is
\* the one computed from the line when the request was made, and no step
\* changes it.
C26_LaunchTakesCost ==
    /\ [](\A j \in TaskIds :
            Request(j).token_consumption =
                requests_file[j + 1].token_consumption)
    /\ [][/\ \A j \in TaskIds :
                api_requests'[j + 1].token_consumption =
                    Request(j).token_consumption
          /\ LaunchStep =>
                /\ available_request_capacity' =
                      Minus(RequestCapacityNow, 1)
                /\ available_token_capacity' =
                      Minus(TokenCapacityNow,
                            api_requests'[event'.task + 1]
                                .token_consumption)]_vars

\* a request that uses tokens has been launched a second time, and the
\* token capacity is short of its limit by what the request took
C26_Witness ==
    /\ event.op = "call_api"
    /\ launched[event.task + 1] = 2
    /\ Request(event.task).token_consumption > 0
    /\ available_token_capacity =
          Minus(Float(max_tokens_per_minute),
                Request(event.task).token_consumption)

(***************************************************************************)
(* The refill.                                                             *)
(***************************************************************************)
\* min(limit, capacity + e * limit / period) in exact arithmetic: the
\* value before any rounding
Refilled(capacity, limit, e) ==
    Least[[capacity EXCEPT !.sixtieths = @ + e * limit], Float(limit)]

\* the largest difference of two floats that counts as rounding, in units
\* of 2^-60 sixtieths: 2^-42 sixtieths, a few last bits of a double
\* below 8
Rounding == 2^18

\* x and y differ by rounding only
Near(x, y) ==
    /\ x.sixtieths = y.sixtieths
    /\ x.error - y.error <= Rounding
    /\ y.error - x.error <= Rounding

SecondsSinceUpdate == clock - last_update_time

\* the pass of the loop launches nothing
RefillStep == event'.op = "wait" /\ clock' = clock /\ pc' \in {"sleep", "done"}

\* the refill of the request capacity over e1 seconds and then over the
\* rest of the time since the last update
RequestCapacityInTwo(e1) ==
    UpdateCapacity(
        UpdateCapacity(available_request_capacity, max_requests_per_minute,
                       e1),
        max_requests_per_minute, SecondsSinceUpdate - e1)

TokenCapacityInTwo(e1) ==
    UpdateCapacity(
        UpdateCapacity(available_token_capacity, max_tokens_per_minute, e1),
        max_tokens_per_minute, SecondsSinceUpdate - e1)

\* C27 as stated: a pass of the loop e seconds after the last one leaves
\* each capacity at min(limit, capacity + e * limit / period), less what
\* a launch takes, and records the time; a pass without a launch never
\* lowers a capacity; and a refill over e1 followed by a refill over e2
\* gives the capacity that one refill over e1 + e2 gives.
C27_Refill ==
    /\ [](\A e1 \in 0..SecondsSinceUpdate :
            /\ RequestCapacityInTwo(e1) = RequestCapacityNow
            /\ TokenCapacityInTwo(e1) = TokenCapacityNow)
    /\ [][/\ RefillStep =>
                /\ available_request_capacity' =
                      Refilled(available_request_capacity,
                               max_requests_per_minute, SecondsSinceUpdate)
                /\ available_token_capacity' =
                      Refilled(available_token_capacity,
                               max_tokens_per_minute, SecondsSinceUpdate)
                /\ AtLeast(available_request_capacity',
                           available_request_capacity)
                /\ AtLeast(available_token_capacity',
                           available_token_capacity)
          /\ LaunchStep =>
                /\ last_update_time' = clock
                /\ available_request_capacity' =
                      Minus(Refilled(available_request_capacity,
                                     max_requests_per_minute,
                                     SecondsSinceUpdate), 1)]_vars

\* C27 amended: a pass of the loop e seconds after the last one leaves
\* each capacity at min(limit, capacity + e * limit / period) as
\* computed in floats, which is that value up to rounding, less what a
\* launch takes, and records the time; a pass without a launch never
\* lowers a capacity; and a refill over e1 followed by a refill over e2
\* gives what one refill over e1 + e2 gives up to rounding, not always
\* the same float.
C27_RefillRounded ==
    /\ [](\A e1 \in 0..SecondsSinceUpdate :
            /\ Near(RequestCapacityInTwo(e1), RequestCapacityNow)
            /\ Near(TokenCapacityInTwo(e1), TokenCapacityNow))
    /\ [][/\ RefillStep =>
                /\ Near(available_request_capacity',
                        Refilled(available_request_capacity,
                                 max_requests_per_minute,
                                 SecondsSinceUpdate))
                /\ Near(available_token_capacity',
                        Refilled(available_token_capacity,
                                 max_tokens_per_minute, SecondsSinceUpdate))
                /\ last_update_time' = clock
                /\ AtLeast(available_request_capacity',
                           available_request_capacity)
                /\ AtLeast(available_token_capacity',
                           available_token_capacity)
          /\ LaunchStep =>
                /\ last_update_time' = clock
                /\ Near(available_request_capacity',
                        Minus(Refilled(available_request_capacity,
                                       max_requests_per_minute,
                                       SecondsSinceUpdate), 1))]_vars

\* a request is held for a retry a whole period after its launch took the
\* request capacity to 0: the refills of the period add up to 1, the
\* floats to one last bit less, and the pass has kept the request waiting
C27_Witness ==
    /\ event.op = "wait"
    /\ next_request # NoRequest
    /\ launched[next_request + 1] = 1
    /\ max_requests_per_minute = 1
    /\ last_update_time = clock
    /\ clock = StartTime + Period
    /\ available_request_capacity.sixtieths = Units(1)
    /\ available_request_capacity.error < 0
    /\ AtLeast(available_token_capacity,
               Float(Request(next_request).token_consumption))

(***************************************************************************)
(* Task ids.                                                               *)
(***************************************************************************)
\* C28: the requests made from the file carry the ids 0, 1, 2, ... in the
\* order of their lines, whatever the lines contain, so the ids are
\* unique and increasing; the generator is always past the last id; a
\* request never changes its id, so a retry is launched, queued and
\* written under the id the request was made with.
C28_TaskIds ==
    /\ [](/\ \A i \in DOMAIN api_requests : api_requests[i].task_id = i - 1
          /\ \A i, k \in DOMAIN api_requests :
                i < k => api_requests[i].task_id < api_requests[k].task_id
          /\ task_id_generator >= Len(api_requests)
          /\ \A i \in DOMAIN Results :
                Results[i].task_id \in TaskIds)
    /\ [][/\ \A j \in TaskIds :
                api_requests'[j + 1].task_id = Request(j).task_id
          /\ LaunchStep =>
                api_requests'[event'.task + 1].task_id = event'.task]_vars

\* two requests made from two equal lines, and the second has been
\* launched twice and written under its id
C28_Witness ==
    /\ Len(api_requests) = 2
    /\ requests_file[1] = requests_file[2]
    /\ launched[2] = 2
    /\ \E i \in DOMAIN Results : Results[i].task_id = 1

(***************************************************************************)
(* The results file.                                                       *)
(***************************************************************************)
\* the step writes to the results file
WriteStep == Results' # Results

\* the position of the line of request j in the results file, 0 if none
LineOf(j) ==
    IF \E i \in DOMAIN Results : Results[i].task_id = j
    THEN CHOOSE i \in DOMAIN Results : Results[i].task_id = j
    ELSE 0

\* C29: lines are written in the order the calls end, not in the order
\* the requests were launched: the only step that writes is the end of a
\* call, it puts the line of that call after all lines written before,
\* and a request launched later can have its line before that of a
\* request launched earlier.
C29_WrittenInCompletionOrder ==
    /\ [](\A j \in TaskIds : LineOf(j) # 0 => j \notin tasks)
    /\ [][WriteStep =>
            /\ ResponseStep
            /\ Len(Results') = Len(Results) + 1
            /\ Results'[Len(Results')].task_id = event'.task
            /\ \A j \in TaskIds :
                  LineOf(j) # 0 =>
                      Results'[LineOf(j)] = Results[LineOf(j)]]_vars

\* request 0 was launched before request 1, each once, and the line of
\* request 1 stands before the line of request 0
C29_Witness ==
    /\ launched = <<1, 1>>
    /\ LineOf(0) = 2
    /\ LineOf(1) = 1

\* C30: the results file only grows at its end: every step leaves the
\* lines it had where they were, a step adds at most one line, and the
\* line added is the record of the request whose call has just ended
\* (its response, or its errors when it has failed for good).
C30_AppendOnly ==
    [][/\ IsPrefix(Results, Results')
       /\ Len(Results') <= Len(Results) + 1
       /\ WriteStep =>
             LET request == api_requests'[event'.task + 1] IN
             Results'[Len(Results')] \in
                 {Data(request, "response", <<>>),
                  Data(request, "failed", request.result)}]_vars

\* a second line has been added after the first, which is as it was
\* written
C30_Witness ==
    /\ Len(Results) = 2
    /\ Results[1].outcome = "failed"
    /\ Results[2].outcome = "response"
    /\ event.op = "response"
    /\ event.task = Results[2].task_id

(***************************************************************************)
(* The metadata of a request.                                              *)
(***************************************************************************)
\* C31: a written record has three elements exactly when the line of its
\* request has a "metadata" key, whatever the value, and two otherwise;
\* and neither the payload in the record nor the payload of a request
\* (what is posted to the service) has a "metadata" key.
C31_MetadataElement ==
    /\ \A j \in TaskIds : "metadata" \notin Request(j).request_json
    /\ \A i \in DOMAIN Results :
          /\ "metadata" \notin Results[i].payload
          /\ Results[i].elements =
                IF requests_file[Results[i].task_id + 1].metadata
                       # "absent"
                THEN 3 ELSE 2

(***************************************************************************)
(* Where a request is.                                                     *)
(***************************************************************************)
\* the requests made and not yet written to the results file
Unfinished == {j \in TaskIds : LinesOf(j) = {}}

\* in how many places request j is: held, on the retry queue (once for
\* every entry), in flight
Places(j) ==
    (IF next_request = j THEN 1 ELSE 0)
        + Cardinality({i \in DOMAIN requests_retry_queue :
                          requests_retry_queue[i] = j})
        + (IF j \in tasks THEN 1 ELSE 0)

\* asyncio.run has cancelled the calls that were in flight when the loop
\* raised: the program is over and no coroutine is at an await any more
Cancelled == pc = "aborted" /\ event.op = "cancel"

C33_AttemptsBalance ==
    /\ [](\A j \in TaskIds :
            Request(j).attempts_left + launched[j + 1] = max_attempts)
    /\ [][\A j \in TaskIds :
            IF LaunchStep /\ event'.task = j
            THEN api_requests'[j + 1].attempts_left =
                    Request(j).attempts_left - 1
            ELSE api_requests'[j + 1].attempts_left =
                    Request(j).attempts_left]_vars

\* a request has been launched twice and re-queued twice, and has no
\* attempt left
C33_Witness ==
    /\ max_attempts = 2
    /\ \E j \in TaskIds :
          /\ launched[j + 1] = 2
          /\ Request(j).attempts_left = 0
          /\ Len(Request(j).result) = 2

(***************************************************************************)
(* A request that never fits the limits.                                   *)
(***************************************************************************)
\* a full bucket is not enough for request j
NeverFits(j) ==
    \/ max_requests_per_minute < 1
    \/ Request(j).token_consumption > max_tokens_per_minute

HeldForGood == next_request # NoRequest /\ NeverFits(next_request)

\* C34: a held request that no full bucket can admit stays held: every
\* step from such a state leaves it in the slot, reads no line, takes
\* nothing off the retry queue, launches nothing and does not exit the
\* loop, and num_tasks_in_progress stays above 0; so the state lasts
\* forever.
C34_HeadOfLineBlocking ==
    /\ [](HeldForGood =>
            /\ pc # "done"
            /\ status_tracker.num_tasks_in_progress > 0)
    /\ [][HeldForGood =>
            /\ next_request' = next_request
            /\ NeverFits(next_request)'
            /\ requests' = requests
            /\ IsPrefix(requests_retry_queue, requests_retry_queue')
            /\ launched' = launched
            /\ tasks' \subseteq tasks
            /\ pc' # "done"]_vars

\* request 1 never fits and is held, two clock samples after the start,
\* while request 0 waits on the retry queue behind it
C34_Witness ==
    /\ next_request = 1
    /\ NeverFits(1)
    /\ requests_retry_queue = <<0>>
    /\ clock >= StartTime + 2 * Quantum
    /\ last_update_time = clock

(***************************************************************************)
(* JobManager.                                                             *)
(***************************************************************************)
\* the ids of the jobs in a sequence of jobs
IdsOf(jobs) == {jobs[i].id : i \in DOMAIN jobs}

\* the jobs the program has added
JobsAdded == Len(manager.todo_queue) + Len(manager.results)

\* the step is a round of run() that executes a job
JobStep == Len(manager'.results) > Len(manager.results)

\* the step is a round of run() that finds its job limited
LimitedStep == event'.op = "limited" /\ manager' # manager

\* C35: every job added is either on the queue, pending, or in the
\* results, executed once, and never both; a job whose function raises is
\* recorded as failed and a job whose function returns as a success; no
\* round of run() loses a job or takes one out of the results; and when
\* run() has returned the results hold every job added, exactly once.
C35_EveryJobOnce ==
    /\ [](pc \in {"adding", "running", "returned"} =>
            /\ Cardinality(IdsOf(manager.todo_queue \o manager.results))
                  = JobsAdded
            /\ IdsOf(manager.todo_queue \o manager.results)
                  = 0..(JobsAdded - 1)
            /\ \A i \in DOMAIN manager.todo_queue :
                  manager.todo_queue[i].status = "pending"
            /\ \A i \in DOMAIN manager.results :
                  manager.results[i].status =
                      IF manager.results[i].raises THEN "failed"
                      ELSE "success"
            /\ pc = "returned" =>
                  /\ manager.todo_queue = <<>>
                  /\ Len(manager.results) = JobsAdded)
    /\ [][pc = "running" =>
            /\ JobsAdded' = JobsAdded
            /\ IsPrefix(manager.results, manager'.results)]_vars

\* run() has returned with every job of the program in the results, one
\* of them failed, after some job was found limited and put back
C35_Witness ==
    /\ pc = "returned"
    /\ Len(manager.results) = MaxJobs
    /\ \E i \in DOMAIN manager.results : manager.results[i].status = "failed"
    /\ \E i \in DOMAIN manager.results :
          manager.results[i].status = "success"
    /\ manager.last_check > StartTime

\* the limiter after the refill of a round that starts now
Refreshed(limiter) == UpdateAllowance(limiter, clock - manager.last_check)

\* C36: a job is executed only in a round where, after the refill, both
\* limiters have an allowance of at least 1, and the round leaves each
\* allowance at its refilled value less exactly 1; a round that finds its
\* job limited leaves each allowance at its refilled value; and both
\* allowances are always at least 0 and at most their rate.  (Allowances
\* are counted in units of 1/per.)
C36_Allowance ==
    /\ [](pc \in {"adding", "running", "returned"} =>
            /\ 0 <= manager.call_limiter.allowance
            /\ manager.call_limiter.allowance <=
                  manager.call_limiter.rate * manager.call_limiter.per
            /\ 0 <= manager.token_limiter.allowance
            /\ manager.token_limiter.allowance <=
                  manager.token_limiter.rate * manager.token_limiter.per)
    /\ [][pc = "running" =>
            /\ JobStep =>
                  /\ Refreshed(manager.call_limiter).allowance
                        >= manager.call_limiter.per
                  /\ Refreshed(manager.token_limiter).allowance
                        >= manager.token_limiter.per
                  /\ manager'.call_limiter.allowance =
                        Refreshed(manager.call_limiter).allowance
                            - manager.call_limiter.per
                  /\ manager'.token_limiter.allowance =
                        Refreshed(manager.token_limiter).allowance
                            - manager.token_limiter.per
            /\ LimitedStep =>
                  /\ manager'.call_limiter = Refreshed(manager.call_limiter)
                  /\ manager'.token_limiter =
                        Refreshed(manager.token_limiter)
                  /\ manager'.results = manager.results]_vars

\* a job was found limited by the call limiter alone, after a refill that
\* left the token limiter with a whole unit and the call limiter with less
C36_Witness ==
    /\ pc = "running"
    /\ event.op = "limited"
    /\ manager.last_check > StartTime
    /\ 0 < manager.call_limiter.allowance
    /\ manager.call_limiter.allowance < manager.call_limiter.per
    /\ manager.token_limiter.allowance >= manager.token_limiter.per
    /\ manager.results # <<>>

\* C37: the jobs are executed in the order they were added: the results
\* never hold a job before one that was added earlier.
C37_ExecutedInOrderAdded ==
    pc \in {"adding", "running", "returned"} =>
        \A i, k \in DOMAIN manager.results :
            i < k => manager.results[i].id < manager.results[k].id

(***************************************************************************)
(* The task id generator.                                                  *)
(***************************************************************************)
\* C38 as stated: the generator yields 1, 2, 3, ..., so the k-th request
\* made from the file has id k.
C38_IdsFromOne ==
    \A k \in DOMAIN api_requests : api_requests[k].task_id = k

\* What the generator does: it yields 0, 1, 2, ... in order: it starts at
\* 0, a pass that makes a request gives it the value the generator is at
\* and moves the generator on by 1, and no other step moves it, but for
\* the pass that ends the run at a line whose tokens cannot be counted;
\* so the k-th request made from the file has id k - 1.
C38_IdsFromZero ==
    /\ [](/\ requests = 0 => task_id_generator = 0
          /\ \A k \in DOMAIN api_requests :
                api_requests[k].task_id = k - 1)
    /\ [][IF Len(api_requests') > Len(api_requests)
          THEN /\ Len(api_requests') = Len(api_requests) + 1
               /\ api_requests'[Len(api_requests')].task_id =
                     task_id_generator
               /\ task_id_generator' = task_id_generator + 1
          ELSE \/ task_id_generator' = task_id_generator
               \/ /\ task_id_generator' = task_id_generator + 1
                  /\ pc' = "aborted"
                  /\ ~Counts(requests_file[requests'])]_vars

====
